---- MODULE Spec2Model ----
(***************************************************************************)
(* Transport layer of the transaction explainer: provider health tracking, *)
(* response cache, request throttle and the two resilient fetchers         *)
(* (src/lib/rpc.ts, src/lib/grpc.ts), with the part of the route handler   *)
(* that touches the fetched document (src/unnamed/part_006).               *)
(*                                                                         *)
(* Time is the value of Date.now() in milliseconds.  A synchronous run of  *)
(* JavaScript between two awaits is one action taken at one instant.       *)
(***************************************************************************)
EXTENDS Integers, Sequences, FiniteSets, TLC

\* ------------------------------------------------------------------ bounds
\* Number of clock advances explored.
MaxTicks == 2
\* Number of configured providers per transport (SUI_RPC_* / SUI_GRPC_*).
NumProviders == 2
\* Value of RATE_LIMIT_MAX used for the throttle (the code's default is 30).
RateLimitMax == 2
\* Number of entries the throttle store is explored with (the code's is 2000).
RateLimiterCapacity == 2
\* Number of clock advances explored for the throttle.
MaxRateTicks == 3
\* Failures, and slow answers, on record over all providers in the tracker
\* runs.
MaxFailures == 4
MaxSlow == 2
\* Number of entries the response cache is explored with in the cache runs
\* (the code's is 500), and number of clock advances of those runs.
TxCacheCapacity == 2
MaxCacheTicks == 3
\* Number of arguments of a MoveCall in the decoding runs.
MaxArgs == 2
\* Number of type arguments of a call in the layout runs.
MaxTypeArgs == 2
\* Number of requests the explain route receives in the route runs.
MaxRequests == 3
\* Metadata calls and clock steps of a metadata run.
MaxMetaCalls == 2
MaxMetaTicks == 2
\* Object changes and commands of a document in the explain runs.
MaxChanges == 2
MaxCommands == 2

\* ------------------------------------------------------- program constants
OPEN_COOLDOWN_MS == 30000
FAILURE_THRESHOLD == 3
TX_CACHE_MAX == 500
TX_CACHE_TTL_MS == 600000
RATE_LIMITER_TTL_MS == 120000
RATE_LIMIT_WINDOW_MS == 60000
SLO_MS == 2000
FUNCTION_CACHE_TTL_MS == 3600000
DATATYPE_CACHE_TTL_MS == 3600000
STRUCT_SCHEMA_TTL_MS == 1800000

\* Granularity of the clock: Date.now() advances in steps of 15 seconds.
TickMs == 15 * 1000
\* SUI_RPC_TIMEOUT_MS as configured for the runs: one clock step.
TimeoutMs == TickMs
\* Granularity of the clock in the throttle runs: half a window.
RateTickMs == 30 * 1000
\* Latencies observed by the fetchers and handed to recordSuccess: two
\* within the streaming tracker's SLO and one above it.
Latencies == {500, 1000, 3000}

\* The value of an optional field that is not set (undefined).
Undefined == 0 - 1

Calls == {"c1", "c2"}
\* One request at a time.
OneCall == {"c1"}
Digests == {"d1", "d2"}
\* Read-option sets: the explain route's OPTIONS.
OptionSets == {"explain"}
\* The read-option sets of the callers of getTransactionBlock: the explain
\* and tx routes pass the same OPTIONS, the recent-transactions route its own.
AllOptionSets == {"explain", "recent"}
\* Providers may answer one digest with different renderings of the
\* document (schema drift): provider 1 serves "v1", the others "v2".
Variant(p) == IF p = 1 THEN "v1" ELSE "v2"
Variants == {"v1", "v2"}
Transports == {"json", "grpc"}
Clients == {"ipA", "ipB", "ipC"}

ProviderIds == 1 .. NumProviders

VARIABLES
    now,          \* Date.now()
    transport,    \* which fetcher the calls of this run go through
    rpcState,     \* rpc.ts providerState: provider id -> ProviderHealth
    grpcState,    \* grpc.ts providerState: provider id -> ProviderHealth
    txCache,      \* rpc.ts txCache: fingerprint -> entry
    txOrder,      \* txCache recency, least recently used first
    heap,         \* the documents allocated by provider responses
    call,         \* per fetch call: position and locals
    rateLimiter,  \* rpc.ts rateLimiter: client ip -> window record
    rlOrder,      \* rateLimiter recency, least recently used first
    lastCheck,    \* history: the last checkRateLimit call and its outcome
    granted,      \* history: per client, the announced window and its grants
    picked,       \* the list pickProviders returned last
    lastOp,       \* history (tracker runs): the last recordSuccess/recordFailure
    functionCache, \* abi.ts functionCache: function key -> entry
    abi,          \* the route's argument decoding: position and locals
    datatypeCache, \* abi.ts datatypeCache: type name -> entry
    structSchemaCache, \* abi.ts structSchemaCache: the entries, one per cache key
    lab,          \* history: the last call of a helper, its inputs and result
    request       \* the explain route's POST handler: position and response

vars == <<now, transport, rpcState, grpcState, txCache, txOrder, heap, call,
          rateLimiter, rlOrder, lastCheck, granted, picked, lastOp,
          functionCache, abi, datatypeCache, structSchemaCache, lab,
          request>>

fetchVars == <<transport, rpcState, grpcState, txCache, txOrder, heap, call>>
rateVars == <<rateLimiter, rlOrder, lastCheck, granted>>
trackerVars == <<picked, lastOp>>
abiVars == <<functionCache, abi>>
layoutVars == <<datatypeCache, structSchemaCache, lab>>
routeVars == <<request>>

\* --------------------------------------------------------- provider health
\* rpc.ts getProviderState: a provider's record is created on first use.
InitialHealth ==
    [consecutiveFailures |-> 0, openUntil |-> Undefined,
     lastLatencyMs |-> Undefined]

\* grpc.ts getProviderState: the streaming tracker also counts slow answers.
GrpcInitialHealth ==
    [consecutiveFailures |-> 0, openUntil |-> Undefined,
     lastLatencyMs |-> Undefined, slowCount |-> 0]

\* isCircuitOpen: !state.openUntil covers undefined and 0.
isCircuitOpen(state, t) ==
    IF state.openUntil = Undefined \/ state.openUntil = 0
    THEN FALSE
    ELSE t < state.openUntil

\* Mutant: a success that leaves the circuit as it was.
recordSuccess_KeepsCircuit(state, latencyMs) ==
    [state EXCEPT !.consecutiveFailures = 0,
                  !.lastLatencyMs = latencyMs]

recordSuccess(state, latencyMs) ==
    [state EXCEPT !.consecutiveFailures = 0,
                  !.openUntil = Undefined,
                  !.lastLatencyMs = latencyMs]

\* Mutant: the circuit opens only on the failure that reaches the threshold.
recordFailure_OnlyAtThreshold(state, t) ==
    LET n == state.consecutiveFailures + 1
    IN  [state EXCEPT !.consecutiveFailures = n,
                      !.openUntil = IF n = FAILURE_THRESHOLD
                                    THEN t + OPEN_COOLDOWN_MS
                                    ELSE @]

\* Mutant: a failure after the cooldown ran out starts the count afresh.
recordFailure_ForgetsAfterCooldown(state, t) ==
    LET expired == state.openUntil # Undefined /\ ~(t < state.openUntil)
        n == IF expired THEN 1 ELSE state.consecutiveFailures + 1
    IN  [state EXCEPT !.consecutiveFailures = n,
                      !.openUntil = IF n >= FAILURE_THRESHOLD
                                    THEN t + OPEN_COOLDOWN_MS
                                    ELSE IF expired THEN Undefined ELSE @]

\* Mutant: the cooldown is counted from the first opening, not from the
\* failure being recorded.
recordFailure_KeepsFirstDeadline(state, t) ==
    LET n == state.consecutiveFailures + 1
    IN  [state EXCEPT !.consecutiveFailures = n,
                      !.openUntil = IF n >= FAILURE_THRESHOLD /\ @ = Undefined
                                    THEN t + OPEN_COOLDOWN_MS
                                    ELSE @]

recordFailure(state, t) ==
    LET n == state.consecutiveFailures + 1
    IN  [state EXCEPT !.consecutiveFailures = n,
                      !.openUntil = IF n >= FAILURE_THRESHOLD
                                    THEN t + OPEN_COOLDOWN_MS
                                    ELSE @]

GrpcRecordSuccess(state, latencyMs, sloMs) ==
    [state EXCEPT !.consecutiveFailures = 0,
                  !.openUntil = Undefined,
                  !.lastLatencyMs = latencyMs,
                  !.slowCount = IF latencyMs > sloMs THEN @ + 1
                                ELSE IF @ > 0 THEN @ - 1 ELSE @]

\* Mutant: a failed attempt of the streaming fetcher goes unrecorded.
GrpcRecordFailure_Unrecorded(state, t) == state

GrpcRecordFailure(state, t) ==
    LET n == state.consecutiveFailures + 1
    IN  [state EXCEPT !.consecutiveFailures = n,
                      !.openUntil = IF n >= FAILURE_THRESHOLD
                                    THEN t + OPEN_COOLDOWN_MS
                                    ELSE @]

\* lastLatencyMs ?? 0
LatencyOrZero(state) ==
    IF state.lastLatencyMs = Undefined THEN 0 ELSE state.lastLatencyMs

\* Mutant: latency is compared before the failure count.
CompareProviders_LatencyFirst(states, t, a, b) ==
    LET openA == IF isCircuitOpen(states[a], t) THEN 1 ELSE 0
        openB == IF isCircuitOpen(states[b], t) THEN 1 ELSE 0
        latencyDiff == LatencyOrZero(states[a]) - LatencyOrZero(states[b])
    IN  IF openA # openB THEN openA - openB
        ELSE IF latencyDiff # 0 THEN latencyDiff
        ELSE states[a].consecutiveFailures - states[b].consecutiveFailures

\* The comparator of rpc.ts pickProviders: negative when a sorts before b.
CompareProviders(states, t, a, b) ==
    LET openA == IF isCircuitOpen(states[a], t) THEN 1 ELSE 0
        openB == IF isCircuitOpen(states[b], t) THEN 1 ELSE 0
        failureDiff == states[a].consecutiveFailures
                       - states[b].consecutiveFailures
    IN  IF openA # openB THEN openA - openB
        ELSE IF failureDiff # 0 THEN failureDiff
        ELSE LatencyOrZero(states[a]) - LatencyOrZero(states[b])

\* The comparator of grpc.ts pickProviders: slowCount precedes latency.
GrpcCompareProviders(states, t, a, b) ==
    LET openA == IF isCircuitOpen(states[a], t) THEN 1 ELSE 0
        openB == IF isCircuitOpen(states[b], t) THEN 1 ELSE 0
        failureDiff == states[a].consecutiveFailures
                       - states[b].consecutiveFailures
        slowDiff == states[a].slowCount - states[b].slowCount
    IN  IF openA # openB THEN openA - openB
        ELSE IF failureDiff # 0 THEN failureDiff
        ELSE IF slowDiff # 0 THEN slowDiff
        ELSE LatencyOrZero(states[a]) - LatencyOrZero(states[b])

\* The comparator of the tracker in use.
Compare(kind, states, t, a, b) ==
    IF kind = "json"
    THEN CompareProviders(states, t, a, b)
    ELSE GrpcCompareProviders(states, t, a, b)

\* Array.prototype.sort is stable: an element goes in front of the first
\* element of the sorted prefix that the comparator puts after it.
RECURSIVE InsertSorted(_, _, _, _, _)
InsertSorted(kind, states, t, sorted, x) ==
    IF sorted = <<>> THEN <<x>>
    ELSE IF Compare(kind, states, t, Head(sorted), x) > 0 THEN <<x>> \o sorted
    ELSE <<Head(sorted)>> \o InsertSorted(kind, states, t, Tail(sorted), x)

RECURSIVE SortWith(_, _, _, _)
SortWith(kind, states, t, list) ==
    IF list = <<>> THEN <<>>
    ELSE InsertSorted(kind, states, t,
                      SortWith(kind, states, t, SubSeq(list, 1, Len(list) - 1)),
                      list[Len(list)])

\* loadProviders / loadGrpcProviders: provider-1 .. provider-n in
\* configuration order.
loadProviders == [i \in 1 .. NumProviders |-> i]

pickProviders(states, t, providers) == SortWith("json", states, t, providers)

GrpcPickProviders(states, t, providers) == SortWith("grpc", states, t, providers)

\* ------------------------------------------------------------ lru-cache
\* The stores are LRUCache instances (max, ttl).  An entry is stale once its
\* age exceeds ttl; get drops a stale entry and reports a miss, and moves a
\* live entry to the most recently used end; set refreshes the entry's age
\* and evicts the least recently used entry when a new key does not fit.
RemoveKey(order, k) == SelectSeq(order, LAMBDA x : x # k)

Touch(order, k) == Append(RemoveKey(order, k), k)

LruLive(entry, t, ttl) == entry.present /\ ~(t - entry.start > ttl)

\* The store after get(k): a stale entry is deleted.
LruAfterGet(cache, absent, k, t, ttl) ==
    IF cache[k].present /\ ~LruLive(cache[k], t, ttl)
    THEN [cache EXCEPT ![k] = absent]
    ELSE cache

LruOrderAfterGet(cache, order, k, t, ttl) ==
    IF ~cache[k].present THEN order
    ELSE IF LruLive(cache[k], t, ttl) THEN Touch(order, k)
    ELSE RemoveKey(order, k)

\* Mutant: set keeps the entry a key already has.
LruAfterSet_KeepsExisting(cache, order, absent, k, entry, cap) ==
    IF cache[k].present THEN cache
    ELSE IF Len(order) < cap
    THEN [cache EXCEPT ![k] = entry]
    ELSE [cache EXCEPT ![Head(order)] = absent, ![k] = entry]

\* Mutant: a full store drops its most recently used entry.
LruAfterSet_EvictsNewest(cache, order, absent, k, entry, cap) ==
    IF cache[k].present \/ Len(order) < cap
    THEN [cache EXCEPT ![k] = entry]
    ELSE [cache EXCEPT ![order[Len(order)]] = absent, ![k] = entry]

\* The store after set(k, entry) with capacity cap.
LruAfterSet(cache, order, absent, k, entry, cap) ==
    IF cache[k].present \/ Len(order) < cap
    THEN [cache EXCEPT ![k] = entry]
    ELSE [cache EXCEPT ![Head(order)] = absent, ![k] = entry]

LruOrderAfterSet(cache, order, k, cap) ==
    IF cache[k].present \/ Len(order) < cap
    THEN Touch(order, k)
    ELSE Append(Tail(order), k)

\* ------------------------------------------------------------- documents
NoDoc == [digest |-> "none", variant |-> "none", decodedArgs |-> FALSE]

Docs == [digest : Digests, variant : Variants, decodedArgs : BOOLEAN]

\* The OPTIONS object of a route: its properties in insertion order.
OPTIONS(route) ==
    <<[name |-> "showInput", value |-> TRUE],
      [name |-> "showEffects", value |-> route = "explain"],
      [name |-> "showEvents", value |-> FALSE],
      [name |-> "showObjectChanges", value |-> TRUE],
      [name |-> "showBalanceChanges", value |-> TRUE]>>

\* JSON.stringify of an object of booleans: "name":value joined by commas.
RECURSIVE StringifyProperties(_)
StringifyProperties(props) ==
    IF props = <<>> THEN ""
    ELSE "\"" \o Head(props).name \o "\":"
         \o (IF Head(props).value THEN "true" ELSE "false")
         \o (IF Tail(props) = <<>> THEN "" ELSE ",")
         \o StringifyProperties(Tail(props))

JSONStringify(props) == "{" \o StringifyProperties(props) \o "}"

\* Mutant: the key is the digest alone.
Fingerprint_DigestOnly(digest, options) == digest \o ":"

\* cacheKey = `${digest}:${JSON.stringify(options)}`
Fingerprint(digest, options) == digest \o ":" \o JSONStringify(OPTIONS(options))

\* The digests of the cache runs: one more than the store is explored with.
CacheDigests == Digests \cup {"d3"}

Keys == {Fingerprint(d, o) : d \in CacheDigests, o \in AllOptionSets}

\* Documents are objects: the cache and the callers hold references.
ObjIds == 1 .. (Cardinality(Keys) + Cardinality(Calls))

NoObj == 0

\* storedAs and afterStale are history: the document as it was when
\* txCache.set stored it, and whether the lookup of the storing call had
\* found a stale entry.
AbsentEntry ==
    [present |-> FALSE, obj |-> NoObj, cachedAt |-> 0, start |-> 0,
     storedAs |-> NoDoc, afterStale |-> FALSE,
     storedFor |-> [digest |-> "none", options |-> "none"]]

NoKey == ""

\* data is the document as it was when the fetch returned; storedAs,
\* latency, wasOpen and evicted (the fingerprint txCache.set dropped to make
\* room) are history of the step that produced the result.
NoResult ==
    [obj |-> NoObj, cached |-> "undefined", provider |-> 0,
     data |-> NoDoc, storedAs |-> NoDoc, latency |-> 0, wasOpen |-> FALSE,
     evicted |-> NoKey]

NoError == [kind |-> "none", provider |-> 0]

IdleCall ==
    [pc |-> "idle", digest |-> "none", options |-> "none", lookup |-> "none",
     order |-> <<>>,
     idx |-> 0, started |-> 0, lastError |-> NoError,
     result |-> NoResult,
     attempts |-> [p \in ProviderIds |-> 0],
     failures |-> [p \in ProviderIds |-> 0],
     skipped |-> {}]

Referenced(cache, calls) ==
    {cache[k].obj : k \in {x \in Keys : cache[x].present}}
    \cup {calls[c].result.obj : c \in {x \in Calls : calls[x].result.obj # NoObj}}

\* The first free object slot.
Alloc(h) == CHOOSE o \in ObjIds : h[o] = NoDoc /\ \A o2 \in 1 .. (o - 1) : h[o2] # NoDoc

\* Unreferenced documents are garbage.
Collect(h, cache, calls) ==
    [o \in ObjIds |-> IF o \in Referenced(cache, calls) THEN h[o] ELSE NoDoc]

NoOp == [op |-> "none", provider |-> 0, latency |-> 0, wasOpen |-> FALSE]

NoCheck ==
    [ip |-> "none", at |-> 0, hadRecord |-> FALSE, prevResetAt |-> 0,
     allowed |-> FALSE, startedNew |-> FALSE]

NoWindow == [present |-> FALSE, count |-> 0, resetAt |-> 0, start |-> 0]

\* ---------------------------------------------------------- abi.ts types
\* abi.ts OpenSignatureBody.  A field that is not set is "" (typeName),
\* <<>> (typeParameterInstantiation) or 0 (typeParameter).
Body(type, typeName, inst, typeParameter) ==
    [type |-> type, typeName |-> typeName,
     typeParameterInstantiation |-> inst, typeParameter |-> typeParameter]

U8 == Body("U8", "", <<>>, 0)
U16 == Body("U16", "", <<>>, 0)
U64 == Body("U64", "", <<>>, 0)
VectorOf(inner) == Body("VECTOR", "", <<inner>>, 0)
DatatypeOf(typeName) == Body("DATATYPE", typeName, <<>>, 0)
\* A datatype instantiated with type arguments, as in Box<u64>.
DatatypeWith(typeName, inst) == Body("DATATYPE", typeName, inst, 0)
TypeParameter(i) == Body("TYPE_PARAMETER", "", <<>>, i)

\* What the chain publishes.  Datatypes: Pair is a struct of two numbers,
\* Choice is an enum, Wrap is a struct with a Choice field, Box<T0> is a
\* struct with one field of its parameter's type, Two<T0, T1> is a struct
\* { a: T0, b: vector<T1> }; any other name is not found.  kind 1 is a
\* struct.
NoDatatype == [found |-> FALSE, name |-> "", kind |-> 0, fields |-> <<>>]

Datatype(typeName) ==
    CASE typeName = "0x2::m::Pair" ->
           [found |-> TRUE, name |-> "Pair", kind |-> 1,
            fields |-> <<[name |-> "a", type |-> U8],
                         [name |-> "b", type |-> U16]>>]
      [] typeName = "0x2::m::Choice" ->
           [found |-> TRUE, name |-> "Choice", kind |-> 2, fields |-> <<>>]
      [] typeName = "0x2::m::Wrap" ->
           [found |-> TRUE, name |-> "Wrap", kind |-> 1,
            fields |-> <<[name |-> "inner",
                          type |-> DatatypeOf("0x2::m::Choice")]>>]
      [] typeName = "0x2::m::Box" ->
           [found |-> TRUE, name |-> "Box", kind |-> 1,
            fields |-> <<[name |-> "value", type |-> TypeParameter(0)]>>]
      [] typeName = "0x2::m::Two" ->
           [found |-> TRUE, name |-> "Two", kind |-> 1,
            fields |-> <<[name |-> "a", type |-> TypeParameter(0)],
                         [name |-> "b", type |-> VectorOf(TypeParameter(1))]>>]
      [] OTHER -> NoDatatype

\* The datatypes the published function signatures refer to.
DatatypeNames == {"0x2::m::Pair", "0x2::m::Choice", "0x2::m::Wrap"}
\* The generic datatypes, and all names a lookup is made for ("Gone" is
\* not published).
GenericDatatypeNames == {"0x2::m::Box", "0x2::m::Two"}
AllDatatypeNames == DatatypeNames \cup GenericDatatypeNames \cup {"0x2::m::Gone"}

\* Functions, by `${packageId}::${moduleName}::${functionName}`.  "gone"
\* is not published.
Functions == {"0x2::m::vote", "0x2::m::wrap", "0x2::m::put", "0x2::m::gone"}

Parameters(key) ==
    CASE key = "0x2::m::vote" ->
           <<DatatypeOf("0x2::m::Choice"),
             VectorOf(DatatypeOf("0x2::m::Choice")),
             U8>>
      [] key = "0x2::m::wrap" ->
           <<DatatypeOf("0x2::m::Wrap"), DatatypeOf("0x2::m::Pair"), U16>>
      [] key = "0x2::m::put" ->
           <<TypeParameter(0), VectorOf(U8), U16>>
      [] OTHER -> <<>>

Published(key) == key # "0x2::m::gone"

\* A functionCache entry; the descriptor is the key's Parameters.
NoFunction == [present |-> FALSE, start |-> 0]

\* ---------------------------------------------------- abi.ts type helpers
RECURSIVE formatOpenSignatureBody(_)
formatOpenSignatureBody(body) ==
    CASE body.type = "U8" -> "u8"
      [] body.type = "U16" -> "u16"
      [] body.type = "U64" -> "u64"
      [] body.type = "VECTOR" ->
           "vector<" \o
           (IF body.typeParameterInstantiation = <<>> THEN "unknown"
            ELSE formatOpenSignatureBody(body.typeParameterInstantiation[1]))
           \o ">"
      [] body.type = "DATATYPE" ->
           IF body.typeName = "" THEN "datatype" ELSE body.typeName
      [] body.type = "TYPE_PARAMETER" -> "T" \o ToString(body.typeParameter)
      [] OTHER -> "unknown"

\* Mutant: the type arguments of a datatype are not looked into.
RECURSIVE resolveTypeParameters_Shallow(_, _)
resolveTypeParameters_Shallow(body, typeArgs) ==
    LET inst == body.typeParameterInstantiation IN
    IF body.type = "TYPE_PARAMETER"
    THEN IF body.typeParameter + 1 \in DOMAIN typeArgs
         THEN typeArgs[body.typeParameter + 1]
         ELSE body
    ELSE IF body.type = "VECTOR"
    THEN IF inst = <<>> THEN body
         ELSE [body EXCEPT !.typeParameterInstantiation =
                  <<resolveTypeParameters_Shallow(inst[1], typeArgs)>>]
    ELSE body

\* typeArgs[index] ?? body: an index outside the list leaves the parameter
\* in place.
RECURSIVE resolveTypeParameters(_, _)
resolveTypeParameters(body, typeArgs) ==
    LET inst == body.typeParameterInstantiation IN
    IF body.type = "TYPE_PARAMETER"
    THEN IF body.typeParameter + 1 \in DOMAIN typeArgs
         THEN typeArgs[body.typeParameter + 1]
         ELSE body
    ELSE IF body.type = "VECTOR"
    THEN IF inst = <<>> THEN body
         ELSE [body EXCEPT !.typeParameterInstantiation =
                  <<resolveTypeParameters(inst[1], typeArgs)>>]
    ELSE IF body.type = "DATATYPE"
    THEN [body EXCEPT !.typeParameterInstantiation =
             [i \in DOMAIN inst |-> resolveTypeParameters(inst[i], typeArgs)]]
    ELSE body

\* getPrimitiveBcsType: the width in bytes of the primitive layout, 0 when
\* the body is not a primitive.  The published signatures use u8, u16 and
\* u64.
PrimitiveWidth(body) ==
    CASE body.type = "U8" -> 1
      [] body.type = "U16" -> 2
      [] body.type = "U64" -> 8
      [] OTHER -> 0

getPrimitiveBcsType(body) == PrimitiveWidth(body) > 0

\* A BCS layout: "prim" (width bytes, little endian), "vector" (of[1]) or
\* "struct" (fields names[i] : of[i]).  status is "ok", "null" (the builder
\* returned null) or "throws" (a metadata request failed).
LayoutOf(l, width, of, names) ==
    [status |-> "ok", l |-> l, width |-> width, of |-> of, names |-> names]
NullLayout ==
    [status |-> "null", l |-> "", width |-> 0, of |-> <<>>, names |-> <<>>]
ThrownLayout ==
    [status |-> "throws", l |-> "", width |-> 0, of |-> <<>>, names |-> <<>>]

\* abi.ts buildBcsType.  down is the set of datatype names whose
\* getDatatype request fails in this call (getDatatypeDescriptor has no
\* handler, so the failure propagates).
RECURSIVE buildBcsType(_, _, _)
RECURSIVE BuildFields(_, _, _, _, _, _)
buildBcsType(body, typeArgs, down) ==
    LET resolved == resolveTypeParameters(body, typeArgs)
        inst == resolved.typeParameterInstantiation
    IN
    IF getPrimitiveBcsType(resolved)
    THEN LayoutOf("prim", PrimitiveWidth(resolved), <<>>, <<>>)
    ELSE IF resolved.type = "VECTOR"
    THEN IF inst = <<>> THEN NullLayout
         ELSE LET innerType == buildBcsType(inst[1], typeArgs, down) IN
              IF innerType.status # "ok" THEN innerType
              ELSE LayoutOf("vector", 0, <<innerType>>, <<>>)
    ELSE IF resolved.type = "DATATYPE" /\ resolved.typeName # ""
    THEN IF resolved.typeName \in down THEN ThrownLayout
         ELSE LET datatype == Datatype(resolved.typeName) IN
              IF ~datatype.found \/ datatype.kind # 1 THEN NullLayout
              ELSE BuildFields(datatype.fields, 1, typeArgs, down, <<>>, <<>>)
    ELSE NullLayout

\* The loop over the fields of a struct: the first field without a layout
\* ends the build.
BuildFields(fields, i, typeArgs, down, of, names) ==
    IF i > Len(fields) THEN LayoutOf("struct", 0, of, names)
    ELSE LET fieldSchema == buildBcsType(fields[i].type, typeArgs, down) IN
         IF fieldSchema.status # "ok" THEN fieldSchema
         ELSE BuildFields(fields, i + 1, typeArgs, down,
                          Append(of, fieldSchema), Append(names, fields[i].name))

\* ------------------------------------------------------------ bcs parse
RECURSIVE LittleEndian(_, _)
LittleEndian(bytes, width) ==
    IF width = 0 THEN 0
    ELSE bytes[1] + 256 * LittleEndian(Tail(bytes), width - 1)

RECURSIVE Join(_)
Join(texts) ==
    IF texts = <<>> THEN ""
    ELSE IF Len(texts) = 1 THEN texts[1]
    ELSE texts[1] \o ", " \o Join(Tail(texts))

ParseFailed == [ok |-> FALSE, text |-> "", rest |-> <<>>]

\* type.parse(bytes) followed by formatDecodedValue: the reader consumes
\* the value from the front of the bytes and throws when they run out;
\* a number is printed in decimal, a vector as [a, b], a struct as
\* { name: value }.
RECURSIVE Read(_, _)
RECURSIVE ReadAll(_, _, _, _)
Read(layout, bytes) ==
    IF layout.l = "prim"
    THEN IF Len(bytes) < layout.width THEN ParseFailed
         ELSE [ok |-> TRUE,
               text |-> ToString(LittleEndian(bytes, layout.width)),
               rest |-> SubSeq(bytes, layout.width + 1, Len(bytes))]
    ELSE IF layout.l = "vector"
    THEN IF bytes = <<>> THEN ParseFailed
         ELSE LET items == ReadAll([i \in 1 .. bytes[1] |-> layout.of[1]],
                                   [i \in 1 .. bytes[1] |-> ""],
                                   Tail(bytes), <<>>)
              IN IF ~items.ok THEN ParseFailed
                 ELSE [items EXCEPT !.text = "[" \o @ \o "]"]
    ELSE LET items == ReadAll(layout.of, [i \in DOMAIN layout.names |->
                                             layout.names[i] \o ": "],
                              bytes, <<>>)
         IN IF ~items.ok THEN ParseFailed
            ELSE [items EXCEPT !.text = "{ " \o @ \o " }"]

ReadAll(layouts, labels, bytes, texts) ==
    IF layouts = <<>>
    THEN [ok |-> TRUE, text |-> Join(texts), rest |-> bytes]
    ELSE LET item == Read(layouts[1], bytes) IN
         IF ~item.ok THEN ParseFailed
         ELSE ReadAll(Tail(layouts), Tail(labels), item.rest,
                      Append(texts, labels[1] \o item.text))

\* abi.ts toBytes: a base64 text stands for the bytes it encodes; the empty
\* text is falsy and yields null, which is <<>>.
toBytes(raw) == raw

\* abi.ts decodeArgValue: the text of the value, null when no layout is
\* available, a throw when a metadata request fails or the bytes do not
\* parse under the layout.
NullValue == [status |-> "null", value |-> ""]
ThrownValue(why) == [status |-> why, value |-> ""]

ParseWith(layout, bytes) ==
    IF layout.status = "null" THEN NullValue
    ELSE IF layout.status = "throws" THEN ThrownValue("metadata")
    ELSE LET r == Read(layout, bytes) IN
         IF r.ok THEN [status |-> "ok", value |-> r.text]
         ELSE ThrownValue("parse")

decodeArgValue(body, bytes, typeArgs, down) ==
    LET resolved == resolveTypeParameters(body, typeArgs)
        inst == resolved.typeParameterInstantiation
    IN
    IF getPrimitiveBcsType(resolved)
    THEN ParseWith(LayoutOf("prim", PrimitiveWidth(resolved), <<>>, <<>>), bytes)
    ELSE IF resolved.type = "VECTOR"
    THEN IF inst = <<>> THEN NullValue
         ELSE LET innerType == buildBcsType(inst[1], typeArgs, down) IN
              IF innerType.status # "ok" THEN ParseWith(innerType, bytes)
              ELSE ParseWith(LayoutOf("vector", 0, <<innerType>>, <<>>), bytes)
    ELSE IF resolved.type = "DATATYPE"
    THEN ParseWith(buildBcsType(resolved, typeArgs, down), bytes)
    ELSE NullValue

\* ------------------------------------------------------------ arguments
\* An argument of a command as the document carries it: { Input: n },
\* { Result: n }, { NestedResult: [n, m] } or 'GasCoin'.
Arg(kind, n, m) == [kind |-> kind, n |-> n, m |-> m]
GasCoin == Arg("GasCoin", 0, 0)

\* An argument as the streaming transport delivers it; a field that is not
\* set is Undefined.
RawArg(kind, input, result, subresult) ==
    [kind |-> kind, input |-> input, result |-> result, subresult |-> subresult]

\* The mapped argument that is dropped by filter(Boolean).
NullArg == Arg("null", 0, 0)

\* grpc.ts mapArgument: a missing index becomes 0.
mapArgument(arg) ==
    CASE arg.kind = "GAS" -> GasCoin
      [] arg.kind = "INPUT" ->
           Arg("Input", IF arg.input = Undefined THEN 0 ELSE arg.input, 0)
      [] arg.kind = "RESULT" ->
           IF arg.subresult # Undefined
           THEN Arg("NestedResult",
                    IF arg.result = Undefined THEN 0 ELSE arg.result,
                    arg.subresult)
           ELSE Arg("Result", IF arg.result = Undefined THEN 0 ELSE arg.result, 0)
      [] OTHER ->
           IF arg.input # Undefined THEN Arg("Input", arg.input, 0) ELSE NullArg

\* grpc.ts mapCommandsToTransactions, the arguments of a MoveCall:
\* (move.arguments ?? []).map(mapArgument).filter(Boolean).
MapArguments(raw) ==
    SelectSeq([i \in DOMAIN raw |-> mapArgument(raw[i])],
              LAMBDA a : a # NullArg)

\* abi.ts getInputIndex: null, which is Undefined, for anything but an
\* input reference.
getInputIndex(arg) == IF arg.kind = "Input" THEN arg.n ELSE Undefined

\* The inputs of the block: a pure input carries bytes, an object input an
\* object id.  inputs[n] is undefined, NoInput, outside the list.
NoInput == [kind |-> "none", bytes |-> <<>>, objectId |-> ""]
PureInput(bytes) == [kind |-> "Pure", bytes |-> bytes, objectId |-> ""]
ObjectInput(id) == [kind |-> "Object", bytes |-> <<>>, objectId |-> id]

InputAt(inputs, n) == IF n + 1 \in DOMAIN inputs THEN inputs[n + 1] ELSE NoInput

\* The object id -> type map the route hands to the decoder.
ObjectTypes == [id \in {"0xc0"} |-> "0x2::coin::Coin"]

DecodedArg(index, value, type) == [index |-> index, value |-> value, type |-> type]

\* abi.ts decodeMoveCallArgsWithAbi, the loop over the arguments from
\* position i (0-based) on, with the function's parameters at hand.  The
\* result is the list built so far, or the throw that ended the loop.
RECURSIVE DecodeFrom(_, _, _, _, _, _, _)
DecodeFrom(arguments, inputs, parameters, typeArgs, down, i, decoded) ==
    IF ~(i < Len(arguments)) THEN [status |-> "ok", decoded |-> decoded]
    ELSE
    LET arg == arguments[i + 1]
        inputIndex == getInputIndex(arg)
        input == InputAt(inputs, inputIndex)
        objectId == input.objectId
        hasParam == i + 1 \in DOMAIN parameters
        paramBody == parameters[i + 1]
        typeLabel == IF paramBody.typeName # "" THEN paramBody.typeName
                     ELSE formatOpenSignatureBody(paramBody)
        bytes == toBytes(input.bytes)
        value == decodeArgValue(paramBody, bytes, typeArgs, down)
        skip == DecodeFrom(arguments, inputs, parameters, typeArgs, down,
                           i + 1, decoded)
    IN
    IF inputIndex = Undefined THEN skip
    ELSE IF ~hasParam THEN skip
    ELSE IF objectId # ""
    THEN DecodeFrom(arguments, inputs, parameters, typeArgs, down, i + 1,
                    Append(decoded,
                           DecodedArg(i,
                                      IF objectId \in DOMAIN ObjectTypes
                                      THEN objectId \o " (" \o ObjectTypes[objectId] \o ")"
                                      ELSE objectId,
                                      typeLabel)))
    ELSE IF bytes = <<>> THEN skip
    ELSE IF value.status = "null" THEN skip
    ELSE IF value.status # "ok" THEN [status |-> value.status, decoded |-> <<>>]
    ELSE DecodeFrom(arguments, inputs, parameters, typeArgs, down, i + 1,
                    Append(decoded, DecodedArg(i, value.value, typeLabel)))

\* No helper has been called yet.
NoCall ==
    [op |-> "none", body |-> U8, typeArgs |-> <<>>, bytes |-> <<>>,
     down |-> {}, resolved |-> U8, again |-> U8, layout |-> NullLayout,
     value |-> NullValue]

\* The route's decoding of one MoveCall, before it starts.
NoMove == [at |-> 0, key |-> "", typeArguments |-> <<>>, arguments |-> <<>>]

IdleDecode ==
    [pc |-> "idle", move |-> NoMove, inputs |-> <<>>,
     decoded |-> <<>>, error |-> "", fetches |-> 0, retried |-> FALSE,
     status |-> 0, decodedArgs |-> <<>>]

\* ---------------------------------------------------------- route types
\* A digest string as the route's validation sees it after trim(): its
\* alphabet and its length, the "0x" of a hex string counted.
DigestText(alphabet, length) == [alphabet |-> alphabet, length |-> length]

\* part_006 DIGEST_REGEX: 20 to 80 base58 characters, or "0x" and 40 to 128
\* hex digits.
DIGEST_REGEX(value) ==
    \/ /\ value.alphabet = "base58"
       /\ value.length >= 20
       /\ value.length <= 80
    \/ /\ value.alphabet = "hex"
       /\ value.length - 2 >= 40
       /\ value.length - 2 <= 128

\* Mutant: the refine() step is left out, only the length is checked.
requestSchema_LengthOnly(body) ==
    /\ body.digest.alphabet # "missing"
    /\ body.digest.length >= 20
    /\ body.digest.length <= 80
    /\ body.mode \in {"json", "grpc", "absent"}

\* part_006 requestSchema.parse: whether the body passes.
requestSchema(body) ==
    /\ body.digest.alphabet # "missing"
    /\ body.digest.length >= 20
    /\ body.digest.length <= 80
    /\ DIGEST_REGEX(body.digest)
    /\ body.mode \in {"json", "grpc", "absent"}

NoBody == [digest |-> DigestText("missing", 0), mode |-> "absent"]

\* The transaction a well-formed digest names.
TxDigest(body) == IF body.digest.alphabet = "base58" THEN "d1" ELSE "d2"

NoOutcome == [status |-> 0, cause |-> "none"]

NoRequest ==
    [pc |-> "idle", body |-> NoBody, ip |-> "", status |-> 0, ok |-> FALSE,
     error |-> "", cause |-> "none", fellBack |-> FALSE, provider |-> "",
     decodedArgs |-> <<>>, previous |-> NoOutcome, served |-> 0]

\* NextResponse.json(...): the handler returns.
Answer(req, status, ok, error, cause) ==
    [req EXCEPT !.pc = "responded", !.status = status, !.ok = ok,
                !.error = error, !.cause = cause]

\* ------------------------------------------------------------------ Init
Init ==
    /\ now = 0
    /\ transport \in Transports
    /\ rpcState = [p \in ProviderIds |-> InitialHealth]
    /\ grpcState = [p \in ProviderIds |-> GrpcInitialHealth]
    /\ txCache = [k \in Keys |-> AbsentEntry]
    /\ txOrder = <<>>
    /\ heap = [o \in ObjIds |-> NoDoc]
    /\ call = [c \in Calls |-> IdleCall]
    /\ rateLimiter = [ip \in Clients |-> NoWindow]
    /\ rlOrder = <<>>
    /\ lastCheck = NoCheck
    /\ granted = [ip \in Clients |-> [resetAt |-> Undefined, count |-> 0]]
    /\ picked = <<>>
    /\ lastOp = NoOp
    /\ functionCache = [f \in Functions |-> NoFunction]
    /\ abi = IdleDecode
    /\ datatypeCache = [n \in AllDatatypeNames |-> NoFunction]
    /\ structSchemaCache = {}
    /\ lab = NoCall
    /\ request = NoRequest

\* ------------------------------------------------- getTransactionBlock
\* The for loop from position `from`: providers whose circuit is open are
\* skipped without a request, the first other one is sent the request (the
\* call is then suspended in jsonRpcRequest); past the end the call throws
\* lastError ?? new Error('All providers failed').
\* Mutant: exhaustion always reports the generic error, the error of the
\* last attempt is dropped.
ContinueLoop_DropsLastError(rec, states, t, from) ==
    LET rest == {i \in from .. Len(rec.order) :
                    ~isCircuitOpen(states[rec.order[i]], t)}
        passed(upto) == {rec.order[i] : i \in from .. upto}
    IN  IF rest = {}
        THEN [rec EXCEPT !.pc = "threw",
                         !.idx = Len(rec.order) + 1,
                         !.skipped = @ \cup passed(Len(rec.order)),
                         !.lastError = [kind |-> "allFailed", provider |-> 0]]
        ELSE LET i == CHOOSE j \in rest : \A j2 \in rest : j <= j2
             IN  [rec EXCEPT !.pc = "attempt",
                             !.idx = i,
                             !.started = t,
                             !.skipped = @ \cup passed(i - 1),
                             !.attempts[rec.order[i]] = @ + 1]

\* Mutant: the circuit is not consulted, every provider is sent the request.
ContinueLoop_NoSkip(rec, states, t, from) ==
    IF from > Len(rec.order)
    THEN [rec EXCEPT !.pc = "threw",
                     !.idx = Len(rec.order) + 1,
                     !.lastError = IF @ = NoError
                                   THEN [kind |-> "allFailed", provider |-> 0]
                                   ELSE @]
    ELSE [rec EXCEPT !.pc = "attempt",
                     !.idx = from,
                     !.started = t,
                     !.attempts[rec.order[from]] = @ + 1]

\* Mutant: after a failure the same provider is tried again.
ContinueLoop_Retry(rec, states, t, from) ==
    LET again == IF from > 1 THEN from - 1 ELSE from
        rest == {i \in again .. Len(rec.order) :
                    ~isCircuitOpen(states[rec.order[i]], t)}
        passed(upto) == {rec.order[i] : i \in again .. upto}
    IN  IF rest = {}
        THEN [rec EXCEPT !.pc = "threw",
                         !.idx = Len(rec.order) + 1,
                         !.skipped = @ \cup passed(Len(rec.order)),
                         !.lastError = IF @ = NoError
                                       THEN [kind |-> "allFailed", provider |-> 0]
                                       ELSE @]
        ELSE LET i == CHOOSE j \in rest : \A j2 \in rest : j <= j2
             IN  [rec EXCEPT !.pc = "attempt",
                             !.idx = i,
                             !.started = t,
                             !.skipped = @ \cup passed(i - 1),
                             !.attempts[rec.order[i]] = @ + 1]

\* Mutant: when every circuit is open the first provider is probed anyway.
ContinueLoop_ProbeWhenAllOpen(rec, states, t, from) ==
    LET rest == {i \in from .. Len(rec.order) :
                    ~isCircuitOpen(states[rec.order[i]], t)}
        passed(upto) == {rec.order[i] : i \in from .. upto}
    IN  IF rest = {} /\ from = 1 /\ Len(rec.order) >= 1
        THEN [rec EXCEPT !.pc = "attempt",
                         !.idx = 1,
                         !.started = t,
                         !.attempts[rec.order[1]] = @ + 1]
        ELSE IF rest = {}
        THEN [rec EXCEPT !.pc = "threw",
                         !.idx = Len(rec.order) + 1,
                         !.skipped = @ \cup passed(Len(rec.order)),
                         !.lastError = IF @ = NoError
                                       THEN [kind |-> "allFailed", provider |-> 0]
                                       ELSE @]
        ELSE LET i == CHOOSE j \in rest : \A j2 \in rest : j <= j2
             IN  [rec EXCEPT !.pc = "attempt",
                             !.idx = i,
                             !.started = t,
                             !.skipped = @ \cup passed(i - 1),
                             !.attempts[rec.order[i]] = @ + 1]

ContinueLoop(rec, states, t, from) ==
    LET rest == {i \in from .. Len(rec.order) :
                    ~isCircuitOpen(states[rec.order[i]], t)}
        passed(upto) == {rec.order[i] : i \in from .. upto}
    IN  IF rest = {}
        THEN [rec EXCEPT !.pc = "threw",
                         !.idx = Len(rec.order) + 1,
                         !.skipped = @ \cup passed(Len(rec.order)),
                         !.lastError = IF @ = NoError
                                       THEN [kind |-> "allFailed", provider |-> 0]
                                       ELSE @]
        ELSE LET i == CHOOSE j \in rest : \A j2 \in rest : j <= j2
             IN  [rec EXCEPT !.pc = "attempt",
                             !.idx = i,
                             !.started = t,
                             !.skipped = @ \cup passed(i - 1),
                             !.attempts[rec.order[i]] = @ + 1]

\* Lines 138-142: the cache lookup of getTransactionBlock.
CacheHit(k) == LruLive(txCache[k], now, TX_CACHE_TTL_MS)

getTransactionBlock(c, d, o) ==
    LET k == Fingerprint(d, o)
        rec == [IdleCall EXCEPT !.digest = d, !.options = o,
                    !.lookup = IF CacheHit(k) THEN "hit"
                               ELSE IF txCache[k].present THEN "stale"
                               ELSE "absent"]
    IN
    /\ transport = "json"
    /\ call[c].pc = "idle"
    /\ txOrder' = LruOrderAfterGet(txCache, txOrder, k, now, TX_CACHE_TTL_MS)
    /\ IF CacheHit(k)
       THEN /\ call' = [call EXCEPT ![c] =
                    [rec EXCEPT !.pc = "returned",
                                !.result = [obj |-> txCache[k].obj,
                                            cached |-> "true",
                                            provider |-> 0,
                                            data |-> heap[txCache[k].obj],
                                            storedAs |-> txCache[k].storedAs,
                                            latency |-> 0,
                                            wasOpen |-> FALSE,
                                            evicted |-> NoKey]]]
            /\ txCache' = txCache
            /\ heap' = heap
       ELSE /\ call' = [call EXCEPT ![c] =
                    ContinueLoop(
                        [rec EXCEPT !.order = pickProviders(rpcState, now, loadProviders)],
                        rpcState, now, 1)]
            /\ txCache' = LruAfterGet(txCache, AbsentEntry, k, now, TX_CACHE_TTL_MS)
            /\ heap' = Collect(heap, txCache', call')
    /\ UNCHANGED <<now, transport, rpcState, grpcState>>
    /\ UNCHANGED rateVars
    /\ UNCHANGED layoutVars
    /\ UNCHANGED routeVars
    /\ UNCHANGED abiVars
    /\ UNCHANGED trackerVars

\* jsonRpcRequest resolves: recordSuccess, then txCache.set and the return
\* of getTransactionBlock (lines 118-124 and 158-159).
JsonSucceedsWith(c, max) ==
    LET rec == call[c]
        p == rec.order[rec.idx]
        k == Fingerprint(rec.digest, rec.options)
        latency == now - rec.started
        doc == [digest |-> rec.digest, variant |-> Variant(p), decodedArgs |-> FALSE]
        obj == Alloc(heap)
        entry == [present |-> TRUE, obj |-> obj, cachedAt |-> now, start |-> now,
                  storedAs |-> doc, afterStale |-> rec.lookup = "stale",
                  storedFor |-> [digest |-> rec.digest, options |-> rec.options]]
    IN
    /\ transport = "json"
    /\ rec.pc = "attempt"
    /\ latency < TimeoutMs
    /\ rpcState' = [rpcState EXCEPT ![p] = recordSuccess(@, latency)]
    /\ txCache' = LruAfterSet(txCache, txOrder, AbsentEntry, k, entry, max)
    /\ txOrder' = LruOrderAfterSet(txCache, txOrder, k, max)
    /\ call' = [call EXCEPT ![c] =
                  [rec EXCEPT !.pc = "returned",
                              !.result = [obj |-> obj, cached |-> "false",
                                          provider |-> p, data |-> doc,
                                          storedAs |-> NoDoc,
                                          latency |-> latency,
                                          wasOpen |-> isCircuitOpen(rpcState[p], now),
                                          evicted |->
                                            IF txCache[k].present
                                               \/ Len(txOrder) < max
                                            THEN NoKey ELSE Head(txOrder)]]]
    /\ heap' = Collect([heap EXCEPT ![obj] = doc], txCache', call')
    /\ UNCHANGED <<now, transport, grpcState>>
    /\ UNCHANGED rateVars
    /\ UNCHANGED layoutVars
    /\ UNCHANGED routeVars
    /\ UNCHANGED abiVars
    /\ UNCHANGED trackerVars

\* txCache is constructed with max: 500.
JsonSucceeds(c) == JsonSucceedsWith(c, TX_CACHE_MAX)

JsonErrors == {"rpcError", "abort"}

\* Mutant: the failure is counted from the call's own tally, so a failure
\* recorded by another call in the meantime is overwritten.
JsonFails_OwnTally(c, e) ==
    LET rec == call[c]
        p == rec.order[rec.idx]
        n == rec.failures[p] + 1
        states == [rpcState EXCEPT ![p] =
                     [@ EXCEPT !.consecutiveFailures = n,
                               !.openUntil = IF n >= FAILURE_THRESHOLD
                                             THEN now + OPEN_COOLDOWN_MS
                                             ELSE @]]
    IN
    /\ transport = "json"
    /\ rec.pc = "attempt"
    /\ e \in JsonErrors
    /\ (e = "abort") <=> (now - rec.started >= TimeoutMs)
    /\ rpcState' = states
    /\ call' = [call EXCEPT ![c] =
                  ContinueLoop(
                      [rec EXCEPT !.failures[p] = @ + 1,
                                  !.lastError = [kind |-> e, provider |-> p]],
                      states, now, rec.idx + 1)]
    /\ UNCHANGED <<now, transport, grpcState, txCache, txOrder, heap>>
    /\ UNCHANGED rateVars
    /\ UNCHANGED layoutVars
    /\ UNCHANGED routeVars
    /\ UNCHANGED abiVars
    /\ UNCHANGED trackerVars

\* jsonRpcRequest rejects (error response or network error, or the abort of
\* the timer): recordFailure, lastError = error, and the loop goes on.
JsonFails(c, e) ==
    LET rec == call[c]
        p == rec.order[rec.idx]
        states == [rpcState EXCEPT ![p] = recordFailure(@, now)]
    IN
    /\ transport = "json"
    /\ rec.pc = "attempt"
    /\ e \in JsonErrors
    /\ (e = "abort") <=> (now - rec.started >= TimeoutMs)
    /\ rpcState' = states
    /\ call' = [call EXCEPT ![c] =
                  ContinueLoop(
                      [rec EXCEPT !.failures[p] = @ + 1,
                                  !.lastError = [kind |-> e, provider |-> p]],
                      states, now, rec.idx + 1)]
    /\ UNCHANGED <<now, transport, grpcState, txCache, txOrder, heap>>
    /\ UNCHANGED rateVars
    /\ UNCHANGED layoutVars
    /\ UNCHANGED routeVars
    /\ UNCHANGED abiVars
    /\ UNCHANGED trackerVars

\* --------------------------------------------- getGrpcTransactionBlock
\* Lines 772-779: no cache lookup; the providers are ordered and the loop
\* starts.
getGrpcTransactionBlock(c, d) ==
    LET rec == [IdleCall EXCEPT !.digest = d,
                    !.order = GrpcPickProviders(grpcState, now, loadProviders)]
    IN
    /\ transport = "grpc"
    /\ call[c].pc = "idle"
    /\ call' = [call EXCEPT ![c] = ContinueLoop(rec, grpcState, now, 1)]
    /\ UNCHANGED <<now, transport, rpcState, grpcState, txCache, txOrder, heap>>
    /\ UNCHANGED rateVars
    /\ UNCHANGED layoutVars
    /\ UNCHANGED routeVars
    /\ UNCHANGED abiVars
    /\ UNCHANGED trackerVars

GrpcErrors == {"grpcError", "noTransaction"}

\* The catch block (lines 895-898): ledgerService.getTransaction rejected,
\* or its answer had no transaction or no effects (lines 791-793, 811-813).
GrpcFails(c, e) ==
    LET rec == call[c]
        p == rec.order[rec.idx]
        states == [grpcState EXCEPT ![p] = GrpcRecordFailure(@, now)]
    IN
    /\ transport = "grpc"
    /\ rec.pc = "attempt"
    /\ e \in GrpcErrors
    /\ grpcState' = states
    /\ call' = [call EXCEPT ![c] =
                  ContinueLoop(
                      [rec EXCEPT !.failures[p] = @ + 1,
                                  !.lastError = [kind |-> e, provider |-> p]],
                      states, now, rec.idx + 1)]
    /\ UNCHANGED <<now, transport, rpcState, txCache, txOrder, heap>>
    /\ UNCHANGED rateVars
    /\ UNCHANGED layoutVars
    /\ UNCHANGED routeVars
    /\ UNCHANGED abiVars
    /\ UNCHANGED trackerVars

\* Lines 783-894: the lookup resolved with a transaction and its effects,
\* getMoveCallSignatures (which swallows its own failures) resolved, the
\* document is built, recordSuccess, return.  The two awaits are one
\* suspension of the attempt: nothing of this state changes between them.
\* Nothing is written to txCache and the result has no `cached` property.
GrpcSucceeds(c) ==
    LET rec == call[c]
        p == rec.order[rec.idx]
        latency == now - rec.started
        doc == [digest |-> rec.digest, variant |-> Variant(p), decodedArgs |-> FALSE]
        obj == Alloc(heap)
    IN
    /\ transport = "grpc"
    /\ rec.pc = "attempt"
    /\ grpcState' = [grpcState EXCEPT ![p] = GrpcRecordSuccess(@, latency, SLO_MS)]
    /\ call' = [call EXCEPT ![c] =
                  [rec EXCEPT !.pc = "returned",
                              !.result = [obj |-> obj, cached |-> "undefined",
                                          provider |-> p, data |-> doc,
                                          storedAs |-> NoDoc,
                                          latency |-> latency,
                                          wasOpen |-> isCircuitOpen(grpcState[p], now),
                                          evicted |-> NoKey]]]
    /\ heap' = Collect([heap EXCEPT ![obj] = doc], txCache, call')
    /\ UNCHANGED <<now, transport, rpcState, txCache, txOrder>>
    /\ UNCHANGED rateVars
    /\ UNCHANGED layoutVars
    /\ UNCHANGED routeVars
    /\ UNCHANGED abiVars
    /\ UNCHANGED trackerVars

\* ---------------------------------------------------------- route handler
\* Whether the document of a digest contains a MoveCall.
HasMoveCall(d) == d = "d1"

\* part_006 attachAbiDecodedArgs, then the response: when a MoveCall's
\* arguments decode, move.decodedArgs is assigned on the document the
\* fetcher returned.
attachAbiDecodedArgs(c, decoded) ==
    LET rec == call[c]
        obj == rec.result.obj
    IN
    /\ rec.pc = "returned"
    /\ decoded \in BOOLEAN
    /\ decoded => HasMoveCall(rec.digest)
    /\ call' = [call EXCEPT ![c] = IdleCall]
    /\ heap' = Collect(
                 IF decoded THEN [heap EXCEPT ![obj].decodedArgs = TRUE] ELSE heap,
                 txCache, call')
    /\ UNCHANGED <<now, transport, rpcState, grpcState, txCache, txOrder>>
    /\ UNCHANGED rateVars
    /\ UNCHANGED layoutVars
    /\ UNCHANGED abiVars
    /\ UNCHANGED trackerVars

\* The handler's catch: the error of the fetch becomes the response.
RespondError(c) ==
    /\ call[c].pc = "threw"
    /\ call' = [call EXCEPT ![c] = IdleCall]
    /\ UNCHANGED <<now, transport, rpcState, grpcState, txCache, txOrder, heap>>
    /\ UNCHANGED rateVars
    /\ UNCHANGED layoutVars
    /\ UNCHANGED routeVars
    /\ UNCHANGED abiVars
    /\ UNCHANGED trackerVars

\* ------------------------------------------------------------------ clock
\* The abort timer of a JSON-RPC request fires at started + timeoutMs: the
\* attempt is over before the clock passes that instant.  The streaming
\* fetcher sets no timer (grpc.ts 781-789): its attempt stays in flight for
\* as long as the provider does not answer.
Elapsed(c) == now - call[c].started

InFlight(c) == call[c].pc = "attempt"

Tick ==
    /\ now < MaxTicks * TickMs
    /\ \A c \in Calls :
          (InFlight(c) /\ transport = "json") => Elapsed(c) < TimeoutMs
    /\ now' = now + TickMs
    /\ UNCHANGED fetchVars
    /\ UNCHANGED rateVars
    /\ UNCHANGED layoutVars
    /\ UNCHANGED routeVars
    /\ UNCHANGED abiVars
    /\ UNCHANGED trackerVars

FetchNext(cs) ==
    \/ \E c \in cs, d \in Digests, o \in OptionSets : getTransactionBlock(c, d, o)
    \/ \E c \in cs : JsonSucceeds(c)
    \/ \E c \in cs, e \in JsonErrors : JsonFails(c, e)
    \/ \E c \in cs, d \in Digests : getGrpcTransactionBlock(c, d)
    \/ \E c \in cs, e \in GrpcErrors : GrpcFails(c, e)
    \/ \E c \in cs : GrpcSucceeds(c)
    \/ \E c \in cs, b \in BOOLEAN : attachAbiDecodedArgs(c, b) /\ UNCHANGED routeVars
    \/ \E c \in cs : RespondError(c)
    \/ Tick

\* Requests handled one at a time, through either fetcher.
Next == FetchNext(OneCall)

Spec == Init /\ [][Next]_vars

\* Two requests for one digest handled concurrently by the JSON-RPC fetcher:
\* the steps of the two calls interleave at their awaits.
ConcDigests == {"d1"}

ConcNext ==
    \/ \E c \in Calls, d \in ConcDigests, o \in OptionSets :
          getTransactionBlock(c, d, o)
    \/ \E c \in Calls : JsonSucceeds(c)
    \/ \E c \in Calls, e \in JsonErrors : JsonFails(c, e)
    \/ \E c \in Calls, b \in BOOLEAN : attachAbiDecodedArgs(c, b) /\ UNCHANGED routeVars
    \/ \E c \in Calls : RespondError(c)
    \/ Tick

InitConc == Init /\ transport = "json"

\* Requests handled one at a time by the JSON-RPC fetcher, with a response
\* cache of TxCacheCapacity entries in place of 500 and a clock that advances
\* by half a time-to-live between requests; the first provider answers
\* every request.
CacheTickMs == TX_CACHE_TTL_MS \div 2

CacheTick ==
    /\ now < MaxCacheTicks * CacheTickMs
    /\ \A c \in Calls : ~InFlight(c)
    /\ now' = now + CacheTickMs
    /\ UNCHANGED fetchVars
    /\ UNCHANGED rateVars
    /\ UNCHANGED layoutVars
    /\ UNCHANGED routeVars
    /\ UNCHANGED abiVars
    /\ UNCHANGED trackerVars

CacheNext ==
    \/ \E c \in OneCall, d \in CacheDigests, o \in OptionSets :
          getTransactionBlock(c, d, o)
    \/ \E c \in OneCall : JsonSucceedsWith(c, TxCacheCapacity)
    \/ \E c \in OneCall, b \in BOOLEAN : attachAbiDecodedArgs(c, b) /\ UNCHANGED routeVars
    \/ CacheTick

SpecCache == InitConc /\ [][CacheNext]_vars

SpecConc == InitConc /\ [][ConcNext]_vars

\* Requests of the explain and the recent-transactions routes for the same
\* digests, handled one at a time by the JSON-RPC fetcher; the caller of a
\* returned call takes the document and the call is over.
KeysNext ==
    \/ \E c \in OneCall, d \in Digests, o \in AllOptionSets :
          getTransactionBlock(c, d, o)
    \/ \E c \in OneCall : JsonSucceeds(c)
    \/ \E c \in OneCall, b \in BOOLEAN :
          /\ b => call[c].options = "explain"
          /\ attachAbiDecodedArgs(c, b)
          /\ UNCHANGED routeVars

SpecKeys == InitConc /\ [][KeysNext]_vars

\* ------------------------------------------------------- tracker runs
\* The health tracker on its own: recordSuccess, recordFailure and
\* pickProviders applied in any order, as concurrent fetch calls apply them.
RECURSIVE SumOver(_, _)
SumOver(f, S) ==
    IF S = {} THEN 0
    ELSE LET x == CHOOSE y \in S : TRUE IN f[x] + SumOver(f, S \ {x})

\* The failures and slow answers on record over all providers; the tracker
\* operations below are explored while these stay within MaxFailures and
\* MaxSlow.
TotalFailures(states) ==
    SumOver([q \in ProviderIds |-> states[q].consecutiveFailures], ProviderIds)

TotalSlow(states) ==
    SumOver([q \in ProviderIds |-> states[q].slowCount], ProviderIds)

RecordFailure(p) ==
    /\ IF transport = "json"
       THEN /\ TotalFailures(rpcState) < MaxFailures
            /\ rpcState' = [rpcState EXCEPT ![p] = recordFailure(@, now)]
            /\ lastOp' = [op |-> "failure", provider |-> p, latency |-> 0,
                          wasOpen |-> isCircuitOpen(rpcState[p], now)]
            /\ UNCHANGED grpcState
       ELSE /\ TotalFailures(grpcState) < MaxFailures
            /\ grpcState' = [grpcState EXCEPT ![p] = GrpcRecordFailure(@, now)]
            /\ lastOp' = [op |-> "failure", provider |-> p, latency |-> 0,
                          wasOpen |-> isCircuitOpen(grpcState[p], now)]
            /\ UNCHANGED rpcState
    /\ picked' = <<>>
    /\ UNCHANGED <<now, transport, txCache, txOrder, heap, call>>
    /\ UNCHANGED rateVars
    /\ UNCHANGED layoutVars
    /\ UNCHANGED routeVars
    /\ UNCHANGED abiVars

RecordSuccess(p, latencyMs) ==
    /\ IF transport = "json"
       THEN /\ rpcState' = [rpcState EXCEPT ![p] = recordSuccess(@, latencyMs)]
            /\ lastOp' = [op |-> "success", provider |-> p, latency |-> latencyMs,
                          wasOpen |-> isCircuitOpen(rpcState[p], now)]
            /\ UNCHANGED grpcState
       ELSE /\ latencyMs > SLO_MS => TotalSlow(grpcState) < MaxSlow
            /\ grpcState' = [grpcState EXCEPT ![p] =
                                GrpcRecordSuccess(@, latencyMs, SLO_MS)]
            /\ lastOp' = [op |-> "success", provider |-> p, latency |-> latencyMs,
                          wasOpen |-> isCircuitOpen(grpcState[p], now)]
            /\ UNCHANGED rpcState
    /\ picked' = <<>>
    /\ UNCHANGED <<now, transport, txCache, txOrder, heap, call>>
    /\ UNCHANGED rateVars
    /\ UNCHANGED layoutVars
    /\ UNCHANGED routeVars
    /\ UNCHANGED abiVars

PickProviders ==
    /\ picked' = IF transport = "json"
                 THEN pickProviders(rpcState, now, loadProviders)
                 ELSE GrpcPickProviders(grpcState, now, loadProviders)
    /\ lastOp' = NoOp
    /\ UNCHANGED <<now, fetchVars>>
    /\ UNCHANGED rateVars
    /\ UNCHANGED layoutVars
    /\ UNCHANGED routeVars
    /\ UNCHANGED abiVars

\* The clock of the tracker runs advances by one cooldown.
TrackerTick ==
    /\ now + OPEN_COOLDOWN_MS <= MaxTicks * TickMs
    /\ now' = now + OPEN_COOLDOWN_MS
    /\ picked' = <<>>
    /\ lastOp' = NoOp
    /\ UNCHANGED fetchVars
    /\ UNCHANGED rateVars
    /\ UNCHANGED layoutVars
    /\ UNCHANGED routeVars
    /\ UNCHANGED abiVars

HealthNext ==
    \/ \E p \in ProviderIds : RecordFailure(p)
    \/ \E p \in ProviderIds, l \in Latencies : RecordSuccess(p, l)
    \/ PickProviders
    \/ TrackerTick

SpecHealth == Init /\ [][HealthNext]_vars

\* ------------------------------------------------------------ throttle
\* rpc.ts checkRateLimit, with max = RATE_LIMIT_MAX and windowMs =
\* RATE_LIMIT_WINDOW_MS.  rateLimiter.get drops a stale record and marks a
\* live one as recently used; each set refreshes the record's age and may
\* evict the least recently used client.
checkRateLimit(ip) ==
    LET max == RateLimitMax
        windowMs == RATE_LIMIT_WINDOW_MS
        live == LruLive(rateLimiter[ip], now, RATE_LIMITER_TTL_MS)
        record == rateLimiter[ip]
        store1 == LruAfterGet(rateLimiter, NoWindow, ip, now, RATE_LIMITER_TTL_MS)
        order1 == LruOrderAfterGet(rateLimiter, rlOrder, ip, now, RATE_LIMITER_TTL_MS)
        fresh == [present |-> TRUE, count |-> 1, resetAt |-> now + windowMs,
                  start |-> now]
        counted == [record EXCEPT !.count = @ + 1, !.start = now]
        startsNew == ~live \/ record.resetAt < now
        allowed == startsNew \/ ~(record.count >= max)
        resetAt == IF startsNew THEN now + windowMs ELSE record.resetAt
        g == granted[ip]
    IN
    /\ IF startsNew
       THEN /\ rateLimiter' = LruAfterSet(store1, order1, NoWindow, ip, fresh,
                                          RateLimiterCapacity)
            /\ rlOrder' = LruOrderAfterSet(store1, order1, ip, RateLimiterCapacity)
       ELSE IF record.count >= max
       THEN /\ rateLimiter' = store1
            /\ rlOrder' = order1
       ELSE /\ rateLimiter' = LruAfterSet(store1, order1, NoWindow, ip, counted,
                                          RateLimiterCapacity)
            /\ rlOrder' = LruOrderAfterSet(store1, order1, ip, RateLimiterCapacity)
    /\ lastCheck' = [ip |-> ip, at |-> now, hadRecord |-> live,
                     prevResetAt |-> IF live THEN record.resetAt ELSE 0,
                     allowed |-> allowed, startedNew |-> startsNew]
    /\ granted' =
         IF ~allowed THEN granted
         ELSE IF g.resetAt = Undefined \/ g.resetAt < now
         THEN [granted EXCEPT ![ip] = [resetAt |-> resetAt, count |-> 1]]
         ELSE [granted EXCEPT ![ip].count =
                  IF @ > RateLimitMax THEN @ ELSE @ + 1]
    /\ UNCHANGED <<now, fetchVars>>
    /\ UNCHANGED trackerVars
    /\ UNCHANGED abiVars
    /\ UNCHANGED layoutVars

RateTick ==
    /\ now < MaxRateTicks * RateTickMs
    /\ now' = now + RateTickMs
    /\ UNCHANGED fetchVars
    /\ UNCHANGED rateVars
    /\ UNCHANGED layoutVars
    /\ UNCHANGED routeVars
    /\ UNCHANGED abiVars
    /\ UNCHANGED trackerVars

RateNext ==
    \/ \E ip \in Clients : checkRateLimit(ip) /\ UNCHANGED routeVars
    \/ RateTick

\* The throttle does not depend on the fetcher in use.
InitRate == Init /\ transport = "json"

SpecRate == InitRate /\ [][RateNext]_vars

\* ------------------------------------------------------ argument decoding
\* The route after the fetch returned a document with one MoveCall: part_006
\* attachAbiDecodedArgs -> abi.ts decodeMoveCallArgsWithAbi ->
\* getFunctionDescriptor, then the response.  The MoveCall is the second
\* command of the block, and the block has a pure input followed by an
\* object input.
CommandIndexes == {1}
ByteStrings == {<<>>, <<7>>, <<1, 7, 0>>}
InputIndexes == 0 .. 2
ResultIndexes == 0 .. 1

ArgKinds ==
    {Arg("Input", n, 0) : n \in InputIndexes}
    \cup {Arg("Result", n, 0) : n \in ResultIndexes}
    \cup {Arg("NestedResult", 0, 0), GasCoin}

RawArgKinds ==
    {RawArg("INPUT", n, Undefined, Undefined) : n \in InputIndexes \cup {Undefined}}
    \cup {RawArg("RESULT", Undefined, n, Undefined) : n \in ResultIndexes}
    \cup {RawArg("RESULT", Undefined, 0, 0),
          RawArg("GAS", Undefined, Undefined, Undefined),
          RawArg("UNKNOWN", Undefined, Undefined, Undefined)}

ListsOf(S) == UNION {[1 .. k -> S] : k \in 0 .. MaxArgs}

\* Type arguments of the call, already parsed: only put has a type
\* parameter.
TypeArgumentsOf(key) ==
    IF key = "0x2::m::put" THEN {<<>>, <<U16>>} ELSE {<<>>}

\* grpc.ts getGrpcClientForAbi: the first provider whose circuit is not open.
getGrpcClientForAbi ==
    \E p \in ProviderIds : ~isCircuitOpen(grpcState[p], now)

\* decodeMoveCallArgsWithAbi up to the first await: getFunctionDescriptor
\* answers from functionCache, gives up without a client, or sends the
\* getFunction request.
Enter(rec) ==
    IF LruLive(functionCache[rec.move.key], now, FUNCTION_CACHE_TTL_MS)
    THEN [rec EXCEPT !.pc = "decoding"]
    ELSE IF ~getGrpcClientForAbi
    THEN [rec EXCEPT !.pc = "done", !.decoded = <<>>]
    ELSE [rec EXCEPT !.pc = "getFunction", !.fetches = @ + 1]

DecodeStart(key, typeArguments, arguments, bytes) ==
    /\ abi.pc = "idle"
    /\ abi' = Enter([IdleDecode EXCEPT
                       !.move = [at |-> CHOOSE at \in CommandIndexes : TRUE,
                                 key |-> key,
                                 typeArguments |-> typeArguments,
                                 arguments |-> arguments],
                       !.inputs = <<PureInput(bytes), ObjectInput("0xc0")>>])
    /\ UNCHANGED <<now, fetchVars, functionCache>>
    /\ UNCHANGED rateVars
    /\ UNCHANGED layoutVars
    /\ UNCHANGED routeVars
    /\ UNCHANGED trackerVars

\* A document of the JSON-RPC transport carries the arguments as they are.
JsonDecodeStart ==
    /\ transport = "json"
    /\ abi.pc = "idle"
    /\ \E key \in Functions, arguments \in ListsOf(ArgKinds), bytes \in ByteStrings :
         \E typeArguments \in TypeArgumentsOf(key) :
            DecodeStart(key, typeArguments, arguments, bytes)

\* A document of the streaming transport went through mapArgument.
GrpcDecodeStart ==
    /\ transport = "grpc"
    /\ abi.pc = "idle"
    /\ \E key \in Functions, raw \in ListsOf(RawArgKinds), bytes \in ByteStrings :
         \E typeArguments \in TypeArgumentsOf(key) :
            DecodeStart(key, typeArguments, MapArguments(raw), bytes)

\* getFunctionDescriptor after the await: a published function is stored
\* and the loop may start; without a descriptor the decoder returns [].
GetFunctionAnswers ==
    /\ abi.pc = "getFunction"
    /\ IF Published(abi.move.key)
       THEN /\ functionCache' = [functionCache EXCEPT ![abi.move.key] =
                                    [present |-> TRUE, start |-> now]]
            /\ abi' = [abi EXCEPT !.pc = "decoding"]
       ELSE /\ abi' = [abi EXCEPT !.pc = "done", !.decoded = <<>>]
            /\ UNCHANGED functionCache
    /\ UNCHANGED <<now, fetchVars>>
    /\ UNCHANGED rateVars
    /\ UNCHANGED layoutVars
    /\ UNCHANGED routeVars
    /\ UNCHANGED trackerVars

\* The getFunction request fails: nothing on the way catches it.
GetFunctionThrows ==
    /\ abi.pc = "getFunction"
    /\ abi' = [abi EXCEPT !.pc = "done", !.error = "metadata"]
    /\ UNCHANGED <<now, fetchVars, functionCache>>
    /\ UNCHANGED rateVars
    /\ UNCHANGED layoutVars
    /\ UNCHANGED routeVars
    /\ UNCHANGED trackerVars

\* decodeMoveCallArgsWithAbi after the descriptor is at hand.
decodeMoveCallArgsWithAbi(down) ==
    LET r == DecodeFrom(abi.move.arguments, abi.inputs,
                        Parameters(abi.move.key), abi.move.typeArguments,
                        down, 0, <<>>)
    IN
    /\ abi.pc = "decoding"
    /\ abi' = [abi EXCEPT !.pc = "done",
                          !.decoded = r.decoded,
                          !.error = IF r.status = "ok" THEN "" ELSE r.status]
    /\ UNCHANGED <<now, fetchVars, functionCache>>
    /\ UNCHANGED rateVars
    /\ UNCHANGED layoutVars
    /\ UNCHANGED routeVars
    /\ UNCHANGED trackerVars

\* part_006 POST, mode 'grpc': a throw of attachAbiDecodedArgs lands in the
\* catch of the streaming branch, which fetches the document again over
\* JSON-RPC and decodes once more.
GrpcFallback ==
    /\ abi.pc = "done"
    /\ abi.error # ""
    /\ transport = "grpc"
    /\ ~abi.retried
    /\ abi' = Enter([abi EXCEPT !.error = "", !.decoded = <<>>, !.retried = TRUE])
    /\ UNCHANGED <<now, fetchVars, functionCache>>
    /\ UNCHANGED rateVars
    /\ UNCHANGED layoutVars
    /\ UNCHANGED routeVars
    /\ UNCHANGED trackerVars

\* part_006 attachAbiDecodedArgs after the decoder returned, and the
\* response: a non-empty list is written to move.decodedArgs as
\* `${item.type} = ${item.value}`; a throw reaches the outer catch of POST,
\* which answers 400 with the error's message.
Respond ==
    /\ abi.pc = "done"
    /\ abi.error # "" => (transport = "json" \/ abi.retried)
    /\ abi' = [abi EXCEPT
                 !.pc = "responded",
                 !.status = IF abi.error = "" THEN 200 ELSE 400,
                 !.decodedArgs =
                     IF abi.error # "" THEN <<>>
                     ELSE [i \in DOMAIN abi.decoded |->
                             abi.decoded[i].type \o " = " \o abi.decoded[i].value]]
    /\ UNCHANGED <<now, fetchVars, functionCache>>
    /\ UNCHANGED rateVars
    /\ UNCHANGED layoutVars
    /\ UNCHANGED routeVars
    /\ UNCHANGED trackerVars

\* The response is sent and the request is over; the caches stay.
RequestEnds ==
    /\ abi.pc = "responded"
    /\ abi' = IdleDecode
    /\ UNCHANGED <<now, fetchVars, functionCache>>
    /\ UNCHANGED rateVars
    /\ UNCHANGED layoutVars
    /\ UNCHANGED routeVars
    /\ UNCHANGED trackerVars

DecodeNext ==
    \/ JsonDecodeStart
    \/ GrpcDecodeStart
    \/ GetFunctionAnswers
    \/ GetFunctionThrows
    \/ \E down \in SUBSET DatatypeNames : decodeMoveCallArgsWithAbi(down)
    \/ GrpcFallback
    \/ Respond
    \/ RequestEnds

SpecDecode == Init /\ [][DecodeNext]_vars

\* ------------------------------------------------------------ type tags
\* A type tag is the text of a type, held as its tokens: "u8" is <<"u8">>,
\* "vector<u64>" is <<"vector<", "u64", ">">>, "0x2::m::Box<u8>" is
\* <<"0x2::m::Box", "<", "u8", ">">>, "&mut u8" is <<"&mut ", "u8">>.
\* parseTypeTag returns null for a text it cannot read.
NullBody == Body("null", "", <<>>, 0)

\* primitiveMap.
PrimitiveTags ==
    [address |-> "ADDRESS", bool |-> "BOOL", u8 |-> "U8", u16 |-> "U16",
     u32 |-> "U32", u64 |-> "U64", u128 |-> "U128", u256 |-> "U256"]

\* base.includes('::'): the token is a qualified name.
IsQualified(token) == token \in AllDatatypeNames

\* splitParams: the tokens between the angle brackets, split at the commas
\* outside nested brackets.
RECURSIVE SplitFrom(_, _, _, _)
SplitFrom(tokens, depth, current, params) ==
    IF tokens = <<>>
    THEN IF current = <<>> THEN params ELSE Append(params, current)
    ELSE LET t == Head(tokens)
             d == IF t \in {"<", "vector<"} THEN depth + 1
                  ELSE IF t = ">" THEN (IF depth > 0 THEN depth - 1 ELSE 0)
                  ELSE depth
         IN  IF t = "," /\ d = 0
             THEN SplitFrom(Tail(tokens), d, <<>>,
                            IF current = <<>> THEN params
                            ELSE Append(params, current))
             ELSE SplitFrom(Tail(tokens), d, Append(current, t), params)

splitParams(tokens) == SplitFrom(tokens, 0, <<>>, <<>>)

\* list.filter(Boolean): the entries that are not null, moved up.
FilterBoolean(list) == SelectSeq(list, LAMBDA b : b # NullBody)

RECURSIVE parseTypeTag(_)
parseTypeTag(typeTag) ==
    LET n == Len(typeTag) IN
    IF n = 0 THEN NullBody
    ELSE IF Head(typeTag) \in {"&mut ", "&"} THEN parseTypeTag(Tail(typeTag))
    ELSE IF Head(typeTag) = "vector<" /\ typeTag[n] = ">"
    THEN LET innerBody == parseTypeTag(SubSeq(typeTag, 2, n - 1))
         IN  IF innerBody = NullBody THEN NullBody ELSE VectorOf(innerBody)
    ELSE IF n = 1 /\ Head(typeTag) \in DOMAIN PrimitiveTags
    THEN Body(PrimitiveTags[Head(typeTag)], "", <<>>, 0)
    ELSE IF IsQualified(Head(typeTag))
    THEN IF n > 2 /\ typeTag[2] = "<" /\ typeTag[n] = ">"
         THEN LET params == splitParams(SubSeq(typeTag, 3, n - 1))
              IN  DatatypeWith(Head(typeTag),
                     FilterBoolean([i \in DOMAIN params |->
                                       parseTypeTag(params[i])]))
         ELSE DatatypeOf(Head(typeTag))
    ELSE NullBody

\* (args.typeArguments ?? []).map((tag) => parseTypeTag(tag)).filter(Boolean)
ParseTypeArguments(typeArguments) ==
    FilterBoolean([i \in DOMAIN typeArguments |-> parseTypeTag(typeArguments[i])])

\* The type-argument texts of the runs: readable ones and "signer", a type
\* of the chain that primitiveMap does not hold.
TypeTags ==
    {<<"u8">>, <<"&", "u64">>, <<"vector<", "u64", ">">>, <<"signer">>,
     <<"vector<", "signer", ">">>, <<"0x2::m::Pair">>,
     <<"0x2::m::Two", "<", "signer", ",", "u8", ">">>}

TypeTagLists == UNION {[1 .. k -> TypeTags] : k \in 0 .. MaxTypeArgs}

\* Signature bodies with a type parameter at each position of the list.
TagBodies ==
    {TypeParameter(i) : i \in 0 .. MaxTypeArgs - 1}
    \cup {VectorOf(TypeParameter(0))}

\* --------------------------------------------------------- layout runs
\* Calls of the type helpers of abi.ts on their own.  The type arguments of
\* a call are closed types or T1; the bodies are the shapes a signature can
\* have, with type parameters inside and outside the type-argument list.
ClosedTypes == {U8, U64, VectorOf(U64)}
TypeArgLists == UNION {[1 .. k -> ClosedTypes \cup {TypeParameter(1)}] :
                          k \in 0 .. MaxTypeArgs}
Unbound == TypeParameter(MaxTypeArgs)

LabBodies ==
    {U8, U64, TypeParameter(0), TypeParameter(1), Unbound,
     VectorOf(TypeParameter(0)), VectorOf(VectorOf(TypeParameter(1))),
     DatatypeWith("0x2::m::Box", <<TypeParameter(0)>>),
     DatatypeWith("0x2::m::Box", <<U8>>),
     DatatypeWith("0x2::m::Box", <<U64>>),
     DatatypeWith("0x2::m::Two", <<TypeParameter(0), TypeParameter(1)>>),
     DatatypeWith("0x2::m::Two", <<U8, VectorOf(U64)>>),
     DatatypeWith("0x2::m::Two", <<TypeParameter(0), Unbound>>),
     DatatypeOf("0x2::m::Pair"), DatatypeOf("0x2::m::Wrap"),
     VectorOf(DatatypeOf("0x2::m::Choice")), DatatypeOf("0x2::m::Gone")}

\* resolveTypeParameters(body, typeArgs), and once more on its result.
Resolve(body, typeArgs) ==
    LET resolved == resolveTypeParameters(body, typeArgs) IN
    /\ lab' = [NoCall EXCEPT !.op = "resolve", !.body = body,
                             !.typeArgs = typeArgs,
                             !.resolved = resolved,
                             !.again = resolveTypeParameters(resolved, typeArgs)]
    /\ UNCHANGED <<now, fetchVars, datatypeCache, structSchemaCache>>
    /\ UNCHANGED rateVars
    /\ UNCHANGED trackerVars
    /\ UNCHANGED abiVars
    /\ UNCHANGED routeVars

\* Byte sequences handed to the decoder: one byte, a u64 (261), and a
\* vector of two bytes.
LabBytes == {<<5>>, <<5, 1, 0, 0, 0, 0, 0, 0>>, <<2, 5, 1>>}
\* The metadata service answers every getDatatype request, or none.
Outages == {{}, AllDatatypeNames}

\* buildBcsType(body, typeArgs) with empty caches.
Build(body, typeArgs, down) ==
    /\ lab' = [NoCall EXCEPT !.op = "build", !.body = body,
                             !.typeArgs = typeArgs, !.down = down,
                             !.resolved = resolveTypeParameters(body, typeArgs),
                             !.layout = buildBcsType(body, typeArgs, down)]
    /\ UNCHANGED <<now, fetchVars, datatypeCache, structSchemaCache>>
    /\ UNCHANGED rateVars
    /\ UNCHANGED trackerVars
    /\ UNCHANGED abiVars
    /\ UNCHANGED routeVars

\* decodeArgValue(body, bytes, typeArgs) with empty caches.
Decode(body, bytes, typeArgs, down) ==
    /\ lab' = [NoCall EXCEPT !.op = "decode", !.body = body,
                             !.typeArgs = typeArgs, !.bytes = bytes,
                             !.down = down,
                             !.resolved = resolveTypeParameters(body, typeArgs),
                             !.value = decodeArgValue(body, bytes, typeArgs, down)]
    /\ UNCHANGED <<now, fetchVars, datatypeCache, structSchemaCache>>
    /\ UNCHANGED rateVars
    /\ UNCHANGED trackerVars
    /\ UNCHANGED abiVars
    /\ UNCHANGED routeVars

\* The call is over and its record is dropped.
Forget ==
    /\ lab.op # "none"
    /\ lab' = NoCall
    /\ UNCHANGED <<now, fetchVars, datatypeCache, structSchemaCache>>
    /\ UNCHANGED rateVars
    /\ UNCHANGED trackerVars
    /\ UNCHANGED abiVars
    /\ UNCHANGED routeVars

LayoutNext ==
    \/ /\ lab.op = "none"
       /\ \E body \in LabBodies, typeArgs \in TypeArgLists : Resolve(body, typeArgs)
    \/ /\ lab.op = "none"
       /\ \E body \in LabBodies, typeArgs \in TypeArgLists, down \in Outages :
             Build(body, typeArgs, down)
    \/ /\ lab.op = "none"
       /\ \E body \in LabBodies, typeArgs \in TypeArgLists, down \in Outages :
             \E bytes \in LabBytes : Decode(body, bytes, typeArgs, down)
    \/ Forget

\* The helpers do not depend on the fetcher in use.
InitLayout == Init /\ transport = "json"

SpecLayout == InitLayout /\ [][LayoutNext]_vars

\* The type arguments of a call are parsed and a parameter's body is
\* resolved against them, as decodeMoveCallArgsWithAbi and decodeArgValue do.
ResolveTags(typeArguments, body) ==
    LET typeArgs == ParseTypeArguments(typeArguments) IN
    /\ lab' = [op |-> "tags", typeArguments |-> typeArguments,
               typeArgs |-> typeArgs, body |-> body,
               resolved |-> resolveTypeParameters(body, typeArgs)]
    /\ UNCHANGED <<now, fetchVars, datatypeCache, structSchemaCache>>
    /\ UNCHANGED rateVars
    /\ UNCHANGED trackerVars
    /\ UNCHANGED abiVars
    /\ UNCHANGED routeVars

TagsNext ==
    \/ /\ lab.op = "none"
       /\ \E typeArguments \in TypeTagLists, body \in TagBodies :
             ResolveTags(typeArguments, body)
    \/ Forget

SpecTags == InitLayout /\ [][TagsNext]_vars

\* -------------------------------------------------------- metadata runs
\* getFunctionDescriptor, getDatatypeDescriptor and buildBcsType with the
\* three caches of abi.ts, one call at a time.  The keys of a run are far
\* fewer than the caches' max, so an entry leaves a cache only by expiry.
\* The clock advances in steps of 45 minutes: one step outlives a layout,
\* two outlive a function or datatype descriptor.
MetaTickMs == 45 * 60 * 1000

\* cacheKey = `${resolved.typeName}::${JSON.stringify(typeArgs)}`
MemoKey(typeName, typeArgs) == <<typeName, typeArgs>>

MemoLive(schemas, key, t) ==
    \E e \in schemas : e.key = key /\ ~(t - e.start > STRUCT_SCHEMA_TTL_MS)

MemoEntry(schemas, key) == CHOOSE e \in schemas : e.key = key

\* structSchemaCache.get(cacheKey): a stale entry is deleted.
MemoAfterGet(schemas, key, t) ==
    {e \in schemas : e.key # key \/ ~(t - e.start > STRUCT_SCHEMA_TTL_MS)}

\* structSchemaCache.set(cacheKey, struct); builtFor is history: the
\* resolved type the layout was built for.
MemoAfterSet(schemas, key, layout, t, resolved) ==
    {e \in schemas : e.key # key}
    \cup {[key |-> key, layout |-> layout, start |-> t, builtFor |-> resolved]}

\* The caches a build works on, with its result (out), the datatype names
\* it requested from the provider (sent), its cache hits (hits) and the
\* answer of the last getDatatypeDescriptor.
BuildState(schemas, datatypes) ==
    [schemas |-> schemas, datatypes |-> datatypes, out |-> NullLayout,
     sent |-> {}, hits |-> {}, answer |-> "null"]

\* abi.ts getDatatypeDescriptor at time t; the request fails for the names
\* in down.
getDatatypeDescriptor(st, typeName, down, t) ==
    IF LruLive(st.datatypes[typeName], t, DATATYPE_CACHE_TTL_MS)
    THEN [st EXCEPT !.answer = "found"]
    ELSE LET got == [st EXCEPT !.datatypes =
                        LruAfterGet(@, NoFunction, typeName, t,
                                    DATATYPE_CACHE_TTL_MS)]
         IN
         IF ~getGrpcClientForAbi THEN [got EXCEPT !.answer = "null"]
         ELSE IF typeName \in down
         THEN [got EXCEPT !.answer = "throws", !.sent = @ \cup {typeName}]
         ELSE IF ~Datatype(typeName).found
         THEN [got EXCEPT !.answer = "null", !.sent = @ \cup {typeName}]
         ELSE [got EXCEPT !.answer = "found",
                          !.sent = @ \cup {typeName},
                          !.datatypes[typeName] = [present |-> TRUE, start |-> t]]

\* abi.ts buildBcsType with structSchemaCache and datatypeCache.
RECURSIVE BuildWith(_, _, _, _, _)
RECURSIVE BuildFieldsWith(_, _, _, _, _, _, _, _)
BuildWith(st, body, typeArgs, down, t) ==
    LET resolved == resolveTypeParameters(body, typeArgs)
        inst == resolved.typeParameterInstantiation
        cacheKey == MemoKey(resolved.typeName, typeArgs)
    IN
    IF getPrimitiveBcsType(resolved)
    THEN [st EXCEPT !.out = LayoutOf("prim", PrimitiveWidth(resolved), <<>>, <<>>)]
    ELSE IF resolved.type = "VECTOR"
    THEN IF inst = <<>> THEN [st EXCEPT !.out = NullLayout]
         ELSE LET inner == BuildWith(st, inst[1], typeArgs, down, t) IN
              IF inner.out.status # "ok" THEN inner
              ELSE [inner EXCEPT !.out = LayoutOf("vector", 0, <<inner.out>>, <<>>)]
    ELSE IF resolved.type = "DATATYPE" /\ resolved.typeName # ""
    THEN IF MemoLive(st.schemas, cacheKey, t)
         THEN LET cached == MemoEntry(st.schemas, cacheKey) IN
              [st EXCEPT !.out = cached.layout,
                         !.hits = @ \cup {[key |-> cacheKey, use |-> resolved,
                                           builtFor |-> cached.builtFor]}]
         ELSE LET got == [st EXCEPT !.schemas = MemoAfterGet(@, cacheKey, t)]
                  d == getDatatypeDescriptor(got, resolved.typeName, down, t)
                  datatype == Datatype(resolved.typeName)
              IN
              IF d.answer = "throws" THEN [d EXCEPT !.out = ThrownLayout]
              ELSE IF d.answer = "null" \/ datatype.kind # 1
              THEN [d EXCEPT !.out = NullLayout]
              ELSE LET built == BuildFieldsWith(d, datatype.fields, 1, typeArgs,
                                                down, t, <<>>, <<>>)
                   IN IF built.out.status # "ok" THEN built
                      ELSE [built EXCEPT !.schemas =
                               MemoAfterSet(@, cacheKey, built.out, t, resolved)]
    ELSE [st EXCEPT !.out = NullLayout]

BuildFieldsWith(st, fields, i, typeArgs, down, t, of, names) ==
    IF i > Len(fields) THEN [st EXCEPT !.out = LayoutOf("struct", 0, of, names)]
    ELSE LET field == BuildWith(st, fields[i].type, typeArgs, down, t) IN
         IF field.out.status # "ok" THEN field
         ELSE BuildFieldsWith(field, fields, i + 1, typeArgs, down, t,
                              Append(of, field.out), Append(names, fields[i].name))

\* The bodies and type-argument lists of the metadata runs.
MemoBodies ==
    {DatatypeWith("0x2::m::Box", <<TypeParameter(0)>>),
     DatatypeWith("0x2::m::Box", <<U8>>),
     DatatypeWith("0x2::m::Box", <<U64>>),
     VectorOf(DatatypeWith("0x2::m::Box", <<U64>>)),
     DatatypeOf("0x2::m::Pair"),
     DatatypeOf("0x2::m::Gone")}
MemoTypeArgs == {<<>>, <<U8>>, <<U64>>}

\* Calls made so far in a metadata run.
MetaCalls == IF lab.op = "none" THEN 0 ELSE lab.n

\* buildBcsType(body, typeArgs) on the caches as they are.
BuildCached(body, typeArgs, down) ==
    LET st == BuildWith(BuildState(structSchemaCache, datatypeCache),
                        body, typeArgs, down, now)
    IN
    /\ MetaCalls < MaxMetaCalls
    /\ structSchemaCache' = st.schemas
    /\ datatypeCache' = st.datatypes
    /\ lab' = [op |-> "buildCached", n |-> MetaCalls + 1, at |-> now,
               body |-> body, typeArgs |-> typeArgs, down |-> down,
               resolved |-> resolveTypeParameters(body, typeArgs),
               layout |-> st.out, hits |-> st.hits, sent |-> st.sent,
               known |-> {name \in AllDatatypeNames : datatypeCache[name].present},
               before |-> structSchemaCache]
    /\ UNCHANGED <<now, fetchVars>>
    /\ UNCHANGED rateVars
    /\ UNCHANGED trackerVars
    /\ UNCHANGED abiVars
    /\ UNCHANGED routeVars

\* getDatatypeDescriptor(typeName) called on its own.
LookupDatatype(typeName, down) ==
    LET st == getDatatypeDescriptor(BuildState(structSchemaCache, datatypeCache),
                                    typeName, down, now)
    IN
    /\ MetaCalls < MaxMetaCalls
    /\ datatypeCache' = st.datatypes
    /\ lab' = [op |-> "getDatatype", n |-> MetaCalls + 1, at |-> now,
               key |-> typeName,
               known |-> datatypeCache[typeName].present,
               sent |-> st.sent # {}, answer |-> st.answer]
    /\ UNCHANGED <<now, fetchVars, structSchemaCache>>
    /\ UNCHANGED rateVars
    /\ UNCHANGED trackerVars
    /\ UNCHANGED abiVars
    /\ UNCHANGED routeVars

\* abi.ts getFunctionDescriptor(key), the getFunction request included;
\* fails is whether the request is rejected.
getFunctionDescriptor(key, fails) ==
    LET live == LruLive(functionCache[key], now, FUNCTION_CACHE_TTL_MS)
        sent == ~live /\ getGrpcClientForAbi
    IN
    /\ MetaCalls < MaxMetaCalls
    /\ functionCache' =
          IF live THEN functionCache
          ELSE IF sent /\ ~fails /\ Published(key)
          THEN [functionCache EXCEPT ![key] = [present |-> TRUE, start |-> now]]
          ELSE LruAfterGet(functionCache, NoFunction, key, now,
                           FUNCTION_CACHE_TTL_MS)
    /\ lab' = [op |-> "getFunction", n |-> MetaCalls + 1, at |-> now,
               key |-> key,
               known |-> functionCache[key].present,
               sent |-> sent,
               answer |-> IF live THEN "found"
                          ELSE IF ~sent THEN "null"
                          ELSE IF fails THEN "throws"
                          ELSE IF Published(key) THEN "found" ELSE "null"]
    /\ UNCHANGED <<now, fetchVars, abi, datatypeCache, structSchemaCache>>
    /\ UNCHANGED rateVars
    /\ UNCHANGED trackerVars
    /\ UNCHANGED routeVars

MetaTick ==
    /\ now < MaxMetaTicks * MetaTickMs
    /\ now' = now + MetaTickMs
    /\ UNCHANGED fetchVars
    /\ UNCHANGED rateVars
    /\ UNCHANGED trackerVars
    /\ UNCHANGED abiVars
    /\ UNCHANGED layoutVars
    /\ UNCHANGED routeVars

MetaNext ==
    \/ \E body \in MemoBodies, typeArgs \in MemoTypeArgs, down \in Outages :
          BuildCached(body, typeArgs, down)
    \/ \E typeName \in AllDatatypeNames, down \in Outages :
          LookupDatatype(typeName, down)
    \/ \E key \in Functions, fails \in BOOLEAN : getFunctionDescriptor(key, fails)
    \/ MetaTick

SpecMeta == InitLayout /\ [][MetaNext]_vars

\* ------------------------------------------------- concurrent lookups
\* getFunctionDescriptor and getDatatypeDescriptor called by two callers
\* whose steps interleave at the await of the metadata request.
LookupKeys ==
    {[kind |-> "function", key |-> k] : k \in {"0x2::m::put", "0x2::m::gone"}}
    \cup {[kind |-> "datatype", key |-> k] : k \in {"0x2::m::Pair", "0x2::m::Gone"}}

IdleLookup ==
    [pc |-> "idle", kind |-> "", key |-> "", known |-> FALSE, sent |-> FALSE,
     answer |-> "", at |-> 0]

\* The callers' positions and locals.
Lookups == IF lab.op = "lookups" THEN lab.calls ELSE [c \in Calls |-> IdleLookup]

\* The cache a lookup works on and its ttl.
MetaCache(kind) == IF kind = "function" THEN functionCache ELSE datatypeCache
MetaTtl(kind) ==
    IF kind = "function" THEN FUNCTION_CACHE_TTL_MS ELSE DATATYPE_CACHE_TTL_MS

\* Whether the provider has a definition for the key.
Defined(kind, key) ==
    IF kind = "function" THEN Published(key) ELSE Datatype(key).found

\* The lookup up to its await: cache.get, getGrpcClientForAbi, and the
\* request is sent.
LookupStart(c, kind, key) ==
    LET cache == MetaCache(kind)
        live == LruLive(cache[key], now, MetaTtl(kind))
        after == LruAfterGet(cache, NoFunction, key, now, MetaTtl(kind))
        rec == [IdleLookup EXCEPT !.kind = kind, !.key = key, !.at = now,
                                  !.known = cache[key].present]
    IN
    /\ Lookups[c].pc = "idle"
    /\ lab' = [op |-> "lookups",
               calls |-> [Lookups EXCEPT ![c] =
                  IF live THEN [rec EXCEPT !.pc = "done", !.answer = "found"]
                  ELSE IF ~getGrpcClientForAbi
                  THEN [rec EXCEPT !.pc = "done", !.answer = "null"]
                  ELSE [rec EXCEPT !.pc = "waiting", !.sent = TRUE]]]
    /\ functionCache' = IF kind = "function" THEN after ELSE functionCache
    /\ datatypeCache' = IF kind = "datatype" THEN after ELSE datatypeCache
    /\ UNCHANGED <<now, fetchVars, abi, structSchemaCache>>
    /\ UNCHANGED rateVars
    /\ UNCHANGED trackerVars
    /\ UNCHANGED routeVars

\* The request resolves: a definition is stored with cachedAt = Date.now()
\* and returned; without one the lookup returns null and stores nothing.
LookupAnswers(c) ==
    LET rec == Lookups[c]
        found == Defined(rec.kind, rec.key)
        stored(cache) == [cache EXCEPT ![rec.key] = [present |-> TRUE, start |-> now]]
    IN
    /\ rec.pc = "waiting"
    /\ lab' = [op |-> "lookups",
               calls |-> [Lookups EXCEPT ![c] =
                  [rec EXCEPT !.pc = "done",
                              !.answer = IF found THEN "found" ELSE "null"]]]
    /\ functionCache' = IF found /\ rec.kind = "function"
                        THEN stored(functionCache) ELSE functionCache
    /\ datatypeCache' = IF found /\ rec.kind = "datatype"
                        THEN stored(datatypeCache) ELSE datatypeCache
    /\ UNCHANGED <<now, fetchVars, abi, structSchemaCache>>
    /\ UNCHANGED rateVars
    /\ UNCHANGED trackerVars
    /\ UNCHANGED routeVars

\* The request rejects: the lookup throws.
LookupThrows(c) ==
    /\ Lookups[c].pc = "waiting"
    /\ lab' = [op |-> "lookups",
               calls |-> [Lookups EXCEPT ![c] =
                  [@ EXCEPT !.pc = "done", !.answer = "throws"]]]
    /\ UNCHANGED <<now, fetchVars, datatypeCache, structSchemaCache>>
    /\ UNCHANGED rateVars
    /\ UNCHANGED trackerVars
    /\ UNCHANGED abiVars
    /\ UNCHANGED routeVars

\* The caller is done with the descriptor.
LookupReturns(c) ==
    /\ Lookups[c].pc = "done"
    /\ lab' = [op |-> "lookups", calls |-> [Lookups EXCEPT ![c] = IdleLookup]]
    /\ UNCHANGED <<now, fetchVars, datatypeCache, structSchemaCache>>
    /\ UNCHANGED rateVars
    /\ UNCHANGED trackerVars
    /\ UNCHANGED abiVars
    /\ UNCHANGED routeVars

LookupNext ==
    \/ \E c \in Calls, k \in LookupKeys : LookupStart(c, k.kind, k.key)
    \/ \E c \in Calls : LookupAnswers(c)
    \/ \E c \in Calls : LookupThrows(c)
    \/ \E c \in Calls : LookupReturns(c)
    \/ MetaTick

SpecLookup == InitLayout /\ [][LookupNext]_vars

\* --------------------------------------------------------- explain runs
\* explain.ts explainTransaction on documents with up to MaxChanges object
\* changes and up to MaxCommands commands.  An object change is its type
\* and its objectId, a command is its kind; a status other than 'success'
\* and 'failure' stands for any other or missing value.
ChangeTypes == {"transferred", "created", "published"}
CommandKinds == {"MoveCall", "TransferObjects"}
Statuses == {"success", "failure", "other"}

ObjectChangeLists ==
    UNION {{[i \in 1 .. k |-> [type |-> f[i], objectId |-> "0x" \o ToString(i)]] :
               f \in [1 .. k -> ChangeTypes]} : k \in 0 .. MaxChanges}

CommandLists == UNION {[1 .. k -> CommandKinds] : k \in 0 .. MaxCommands}

Documents ==
    [status : Statuses, objectChanges : ObjectChangeLists,
     transactions : CommandLists]

\* explain.ts parseTransfers: filter, then map with the index in the
\* filtered list.  Of a TransferView the id is kept.
parseTransfers(tx) ==
    LET transfers == SelectSeq(tx.objectChanges,
                               LAMBDA change : change.type = "transferred")
    IN  [index \in DOMAIN transfers |->
            [id |-> ToString(index - 1) \o "-" \o transfers[index].objectId]]

\* explain.ts parseMoveCalls: the commands that are MoveCalls, with the
\* index in the command list.
parseMoveCalls(tx) ==
    LET calls == tx.transactions
        RECURSIVE From(_)
        From(i) == IF i > Len(calls) THEN <<>>
                   ELSE IF calls[i] = "MoveCall"
                   THEN <<[id |-> ToString(i - 1)]>> \o From(i + 1)
                   ELSE From(i + 1)
    IN  From(1)

\* explain.ts parseObjectChanges: one item per object change.
parseObjectChanges(tx) ==
    [index \in DOMAIN tx.objectChanges |->
        [id |-> tx.objectChanges[index].type \o "-" \o ToString(index - 1)]]

\* `${count} word${count === 1 ? '' : 's'}` as the headlines spell it out.
Counted(prefix, count, word) ==
    prefix \o " " \o ToString(count) \o " " \o word
        \o (IF count = 1 THEN "" ELSE "s")

\* Mutant: Move calls are looked at before transfers.
buildSummary_MoveCallsFirst(tx, transfers, objectChanges, moveCalls) ==
    LET status == IF tx.status \in {"success", "failure"} THEN tx.status
                  ELSE "unknown"
    IN  [status |-> status,
         headline |->
            IF status = "failure" THEN "Transaction failed to execute"
            ELSE IF Len(moveCalls) > 0
            THEN Counted("Executed", Len(moveCalls), "Move call")
            ELSE IF Len(transfers) > 0
            THEN Counted("Executed", Len(transfers), "transfer")
            ELSE IF Len(objectChanges) > 0
            THEN Counted("Processed", Len(objectChanges), "object change")
            ELSE "Transaction processed"]

\* explain.ts buildSummary: status and headline.
buildSummary(tx, transfers, objectChanges, moveCalls) ==
    LET status == IF tx.status \in {"success", "failure"} THEN tx.status
                  ELSE "unknown"
    IN  [status |-> status,
         headline |->
            IF status = "failure" THEN "Transaction failed to execute"
            ELSE IF Len(transfers) > 0
            THEN Counted("Executed", Len(transfers), "transfer")
            ELSE IF Len(moveCalls) > 0
            THEN Counted("Executed", Len(moveCalls), "Move call")
            ELSE IF Len(objectChanges) > 0
            THEN Counted("Processed", Len(objectChanges), "object change")
            ELSE "Transaction processed"]

\* explain.ts explainTransaction
explainTransaction(tx) ==
    LET moveCalls == parseMoveCalls(tx)
        objectChanges == parseObjectChanges(tx)
        transfers == parseTransfers(tx)
    IN  [ok |-> TRUE,
         summary |-> buildSummary(tx, transfers, objectChanges, moveCalls),
         moveCalls |-> moveCalls,
         objectChanges |-> objectChanges,
         transfers |-> transfers,
         raw |-> tx]

Explain(tx) ==
    /\ lab' = [op |-> "explain", tx |-> tx, response |-> explainTransaction(tx)]
    /\ UNCHANGED <<now, fetchVars, datatypeCache, structSchemaCache>>
    /\ UNCHANGED rateVars
    /\ UNCHANGED trackerVars
    /\ UNCHANGED abiVars
    /\ UNCHANGED routeVars

ExplainNext ==
    \/ /\ lab.op = "none"
       /\ \E tx \in Documents : Explain(tx)
    \/ Forget

SpecExplain == InitLayout /\ [][ExplainNext]_vars

\* --------------------------------------------------------- plugin runs
\* decoders/registry: runDecoderPlugins over DECODER_REGISTRY.  A plugin at
\* work on one context is its id, its priority, the outcome of match(ctx)
\* ("true", "false" or "throws") and the outcome of describe(ctx) (a title,
\* or "throws").
PluginOf(id, priority, match, describe) ==
    [id |-> id, priority |-> priority, match |-> match, describe |-> describe]

\* The words a function name holds, for fn.includes(keyword).
WordsOf(fn) ==
    IF fn = "swap_exact_in" THEN {"swap"}
    ELSE IF fn = "claim_reward" THEN {"claim", "reward"}
    ELSE IF fn = "mint" THEN {"mint"}
    ELSE {}

GAME_KEYWORDS == {"claim", "reward", "loot", "quest", "mint"}
SWAP_MODULES == {"swap", "pool", "router", "amm"}
SWAP_FUNCTIONS == {"swap", "swap_exact_in", "swap_exact_out", "swap_tokens"}

\* ctx.moveCalls is undefined when the document has no command list: the
\* route's optional chain ends before .filter(Boolean).
NoMoveCalls == <<[module |-> "undefined", fn |-> "undefined"]>>

\* DEFI_SWAP_DECODER.match
DefiSwapMatch(ctx) ==
    IF ctx.moveCalls = NoMoveCalls THEN "throws"
    ELSE IF \E i \in DOMAIN ctx.moveCalls :
               \/ ctx.moveCalls[i].module \in SWAP_MODULES
               \/ ctx.moveCalls[i].fn \in SWAP_FUNCTIONS
               \/ "swap" \in WordsOf(ctx.moveCalls[i].fn)
    THEN "true" ELSE "false"

\* NFT_TRANSFER_DECODER.match
NftTransferMatch(ctx) ==
    IF /\ \E i \in DOMAIN ctx.objectChanges :
             ctx.objectChanges[i].type = "transferred"
       /\ \E i \in DOMAIN ctx.objectChanges : ctx.objectChanges[i].nft
    THEN "true" ELSE "false"

\* GAME_REWARD_DECODER.match
GameRewardMatch(ctx) ==
    IF ctx.moveCalls = NoMoveCalls THEN "throws"
    ELSE IF \E i \in DOMAIN ctx.moveCalls :
               WordsOf(ctx.moveCalls[i].fn) \cap GAME_KEYWORDS # {}
    THEN "true" ELSE "false"

\* The array literal of the registry, at work on ctx, before the sort.
Plugins(ctx) ==
    <<PluginOf("defi-swap", 90, DefiSwapMatch(ctx), "Token swap"),
      PluginOf("nft-transfer", 80, NftTransferMatch(ctx), "NFT transfer"),
      PluginOf("game-reward", 70, GameRewardMatch(ctx), "Game reward")>>

\* Array.prototype.sort((a, b) => b.priority - a.priority): a stable sort,
\* higher priority first.
RECURSIVE InsertByPriority(_, _)
InsertByPriority(sorted, plugin) ==
    IF sorted = <<>> THEN <<plugin>>
    ELSE IF Head(sorted).priority >= plugin.priority
    THEN <<Head(sorted)>> \o InsertByPriority(Tail(sorted), plugin)
    ELSE <<plugin>> \o sorted

RECURSIVE SortByPriority(_)
SortByPriority(plugins) ==
    IF plugins = <<>> THEN <<>>
    ELSE InsertByPriority(SortByPriority(SubSeq(plugins, 1, Len(plugins) - 1)),
                          plugins[Len(plugins)])

DECODER_REGISTRY(plugins) == SortByPriority(plugins)

\* Mutant: the first plugin that throws ends the search.
RECURSIVE runDecoderPlugins_StopsAtThrow(_)
runDecoderPlugins_StopsAtThrow(registry) ==
    IF registry = <<>> THEN "null"
    ELSE LET plugin == Head(registry) IN
         IF plugin.match = "throws" THEN "null"
         ELSE IF plugin.match = "true"
         THEN IF plugin.describe = "throws" THEN "null" ELSE plugin.describe
         ELSE runDecoderPlugins_StopsAtThrow(Tail(registry))

\* runDecoderPlugins: the loop over the registry; the catch swallows a throw
\* of match or describe and the loop goes on.
RECURSIVE runDecoderPlugins(_)
runDecoderPlugins(registry) ==
    IF registry = <<>> THEN "null"
    ELSE LET plugin == Head(registry) IN
         IF plugin.match = "true" /\ plugin.describe # "throws"
         THEN plugin.describe
         ELSE runDecoderPlugins(Tail(registry))

\* The contexts of the runs: no command list, or one or two MoveCalls; no,
\* one or two object changes.
PluginCalls ==
    [module : {"pool", "m"}, fn : {"swap_exact_in", "claim_reward", "mint", "put"}]
PluginChanges == [type : {"transferred", "mutated"}, nft : BOOLEAN]
Contexts ==
    [moveCalls : {NoMoveCalls} \cup {<<>>} \cup {<<c>> : c \in PluginCalls},
     objectChanges : {<<>>} \cup {<<c>> : c \in PluginChanges}
                     \cup {<<c, d>> : c, d \in PluginChanges}]

\* Registries of three plugins of any behaviour, in any order of priority.
Behaviours ==
    {<<PluginOf("a", x, ma, da), PluginOf("b", 80, mb, db),
       PluginOf("c", 85, mc, "C")>> :
        x \in {70, 90},
        ma \in {"true", "false", "throws"}, da \in {"A", "throws"},
        mb \in {"true", "false", "throws"}, db \in {"B", "throws"},
        mc \in {"true", "false", "throws"}}

\* runDecoderPlugins on the context of a document.
RunPlugins(ctx) ==
    /\ lab' = [op |-> "plugins", plugins |-> Plugins(ctx),
               result |-> runDecoderPlugins(DECODER_REGISTRY(Plugins(ctx)))]
    /\ UNCHANGED <<now, fetchVars, datatypeCache, structSchemaCache>>
    /\ UNCHANGED rateVars
    /\ UNCHANGED trackerVars
    /\ UNCHANGED abiVars
    /\ UNCHANGED routeVars

\* runDecoderPlugins on a registry of given behaviour.
RunBehaviours(plugins) ==
    /\ lab' = [op |-> "plugins", plugins |-> plugins,
               result |-> runDecoderPlugins(DECODER_REGISTRY(plugins))]
    /\ UNCHANGED <<now, fetchVars, datatypeCache, structSchemaCache>>
    /\ UNCHANGED rateVars
    /\ UNCHANGED trackerVars
    /\ UNCHANGED abiVars
    /\ UNCHANGED routeVars

PluginsNext ==
    \/ /\ lab.op = "none"
       /\ \E ctx \in Contexts : RunPlugins(ctx)
    \/ /\ lab.op = "none"
       /\ \E plugins \in Behaviours : RunBehaviours(plugins)
    \/ Forget

SpecPlugins == InitLayout /\ [][PluginsNext]_vars

\* ----------------------------------------------------------- route runs
\* part_006 POST, one request at a time, FIXTURE_MODE unset.  The requests
\* of a run arrive in one burst: the clock stands still (timeouts, cooldowns
\* and expiry are the subject of the fetch, tracker and cache runs).  The request
\* bodies: well-formed base58 and hex digests, a base58 string that is too
\* short, a hex string of 128 digits, a string outside both alphabets, a
\* body without a digest, and a mode outside the enum.
RouteClients == {"ipA"}

RouteBodies ==
    {[digest |-> DigestText("base58", 44), mode |-> m] :
        m \in {"json", "grpc", "absent"}}
    \cup {[digest |-> DigestText("hex", 66), mode |-> "json"],
          [digest |-> DigestText("base58", 19), mode |-> "json"],
          [digest |-> DigestText("hex", 130), mode |-> "grpc"],
          [digest |-> DigestText("other", 44), mode |-> "json"],
          [digest |-> DigestText("missing", 0), mode |-> "absent"],
          [digest |-> DigestText("base58", 44), mode |-> "rest"]}

\* The MoveCall of the document of d1: put<u16>(Input 0, Result 0) on a
\* block whose first input is the pure bytes 07 00.
RouteMoveKey == "0x2::m::put"
RouteTypeArguments == <<U16>>
RouteArguments == <<Arg("Input", 0, 0), Arg("Result", 0, 0)>>
RouteRawArguments ==
    <<RawArg("INPUT", 0, Undefined, Undefined),
      RawArg("RESULT", Undefined, 0, Undefined)>>
RouteBytes == <<7, 0>>

\* The handler's locals once the body is read.
Received(body, ip) ==
    [request EXCEPT !.body = body, !.ip = ip, !.served = @ + 1]

\* Mutant: a denied request goes on to the fetch.
\* Mutant: the throttle is checked before the body is validated.
POST_ThrottleFirst(body, ip) ==
    /\ request.pc = "idle"
    /\ request.served < MaxRequests
    /\ checkRateLimit(ip)
    /\ request' =
         IF ~lastCheck'.allowed
         THEN Answer(Received(body, ip), 429, FALSE,
                     "Rate limit exceeded. Try again shortly.", "rateLimited")
         ELSE IF ~requestSchema(body)
         THEN Answer(Received(body, ip), 400, FALSE, "ZodError", "malformed")
         ELSE [Received(body, ip) EXCEPT !.pc = "admitted"]

POST_IgnoresDenial(body, ip) ==
    /\ request.pc = "idle"
    /\ request.served < MaxRequests
    /\ IF ~requestSchema(body)
       THEN /\ request' = Answer(Received(body, ip),
                                 400, FALSE, "ZodError", "malformed")
            /\ UNCHANGED <<now, fetchVars>>
            /\ UNCHANGED rateVars
            /\ UNCHANGED trackerVars
            /\ UNCHANGED abiVars
            /\ UNCHANGED layoutVars
       ELSE /\ checkRateLimit(ip)
            /\ request' = [Received(body, ip) EXCEPT !.pc = "admitted"]

\* POST from the parsed body to the throttle's verdict (lines 93-103):
\* requestSchema.parse throws into the catch of line 207, a denial answers
\* 429, anything else goes on.
POST(body, ip) ==
    /\ request.pc = "idle"
    /\ request.served < MaxRequests
    /\ IF ~requestSchema(body)
       THEN /\ request' = Answer(Received(body, ip),
                                 400, FALSE, "ZodError", "malformed")
            /\ UNCHANGED <<now, fetchVars>>
            /\ UNCHANGED rateVars
            /\ UNCHANGED trackerVars
            /\ UNCHANGED abiVars
            /\ UNCHANGED layoutVars
       ELSE /\ checkRateLimit(ip)
            /\ request' =
                 IF lastCheck'.allowed
                 THEN [Received(body, ip) EXCEPT !.pc = "admitted"]
                 ELSE Answer(Received(body, ip),
                             429, FALSE,
                             "Rate limit exceeded. Try again shortly.",
                             "rateLimited")

\* `if (mode === 'json')` (line 119): the fetcher the request starts with.
RouteDispatch ==
    /\ request.pc = "admitted"
    /\ transport' = IF request.body.mode = "json" THEN "json" ELSE "grpc"
    /\ request' = [request EXCEPT !.pc = "fetch"]
    /\ UNCHANGED <<now, rpcState, grpcState, txCache, txOrder, heap, call>>
    /\ UNCHANGED rateVars
    /\ UNCHANGED trackerVars
    /\ UNCHANGED abiVars
    /\ UNCHANGED layoutVars

\* The call of the fetcher (lines 120, 150 and 175).
RouteFetch ==
    /\ request.pc = "fetch"
    /\ \/ getTransactionBlock("c1", TxDigest(request.body), "explain")
       \/ getGrpcTransactionBlock("c1", TxDigest(request.body))

\* attachAbiDecodedArgs on the document the fetcher returned (lines 125,
\* 151 and 180): the decoder is called for the MoveCall.
RouteAttach ==
    /\ request.pc = "fetch"
    /\ call["c1"].pc = "returned"
    /\ HasMoveCall(call["c1"].digest)
    /\ DecodeStart(RouteMoveKey, RouteTypeArguments,
                   IF transport = "json" THEN RouteArguments
                   ELSE MapArguments(RouteRawArguments),
                   RouteBytes)

\* The list of strings attachAbiDecodedArgs writes to move.decodedArgs.
DecodedArgs(decoded) ==
    [i \in DOMAIN decoded |-> decoded[i].type \o " = " \o decoded[i].value]

\* The decoder returned (or there was nothing to decode): explainTransaction
\* and the response of line 206.
RouteResponds ==
    LET moves == HasMoveCall(call["c1"].digest)
    IN
    /\ request.pc = "fetch"
    /\ moves => (abi.pc = "done" /\ abi.error = "")
    /\ attachAbiDecodedArgs("c1", moves /\ abi.decoded # <<>>)
    /\ request' = [Answer(request, 200, TRUE, "", "none") EXCEPT
                     !.provider = transport,
                     !.decodedArgs = IF moves THEN DecodedArgs(abi.decoded)
                                     ELSE <<>>]

\* Whether the fetcher or the decoding threw.
RouteThrew ==
    \/ call["c1"].pc = "threw"
    \/ abi.pc = "done" /\ abi.error # ""

\* `catch (grpcError)` (line 174): whatever the streaming branch threw, the
\* document is fetched over JSON-RPC.
RouteFallsBack ==
    /\ request.pc = "fetch"
    /\ transport = "grpc"
    /\ RouteThrew
    /\ transport' = "json"
    /\ call' = [call EXCEPT !["c1"] = IdleCall]
    /\ heap' = Collect(heap, txCache, call')
    /\ abi' = IdleDecode
    /\ request' = [request EXCEPT !.fellBack = TRUE]
    /\ UNCHANGED <<now, rpcState, grpcState, txCache, txOrder, functionCache>>
    /\ UNCHANGED rateVars
    /\ UNCHANGED trackerVars
    /\ UNCHANGED layoutVars

\* The outer catch (lines 207-210): the message of the error is the
\* response, with status 400.
RouteCatches ==
    LET fetchThrew == call["c1"].pc = "threw"
    IN
    /\ request.pc = "fetch"
    /\ transport = "json"
    /\ RouteThrew
    /\ request' = Answer(request, 400, FALSE,
                         IF fetchThrew THEN call["c1"].lastError.kind
                         ELSE abi.error,
                         IF fetchThrew THEN "exhausted" ELSE "decoding")
    /\ call' = [call EXCEPT !["c1"] = IdleCall]
    /\ heap' = Collect(heap, txCache, call')
    /\ UNCHANGED <<now, transport, rpcState, grpcState, txCache, txOrder>>
    /\ UNCHANGED rateVars
    /\ UNCHANGED trackerVars
    /\ UNCHANGED abiVars
    /\ UNCHANGED layoutVars

\* The response is sent; the handler is ready for the next request.
RouteEnds ==
    /\ request.pc = "responded"
    /\ request' = [NoRequest EXCEPT
                     !.previous = [status |-> request.status,
                                   cause |-> request.cause],
                     !.served = request.served]
    /\ abi' = IdleDecode
    /\ UNCHANGED <<now, fetchVars, functionCache>>
    /\ UNCHANGED rateVars
    /\ UNCHANGED trackerVars
    /\ UNCHANGED layoutVars

RouteNext ==
    \/ \E body \in RouteBodies, ip \in RouteClients : POST(body, ip)
    \/ RouteDispatch
    \/ RouteFetch
    \/ JsonSucceeds("c1")
    \/ \E e \in JsonErrors : JsonFails("c1", e)
    \/ \E e \in GrpcErrors : GrpcFails("c1", e)
    \/ GrpcSucceeds("c1")
    \/ RouteAttach
    \/ GetFunctionAnswers
    \/ GetFunctionThrows
    \/ \E down \in SUBSET DatatypeNames : decodeMoveCallArgsWithAbi(down)
    \/ RouteResponds
    \/ RouteFallsBack
    \/ RouteCatches
    \/ RouteEnds

InitRoute == Init /\ transport = "json"

SpecRoute == InitRoute /\ [][RouteNext]_vars

\* ================================================================ claims
\* The tracker the calls of the run report to.
Tracker == IF transport = "json" THEN rpcState ELSE grpcState

\* The document a lookup of fingerprint k yields, NoDoc on a miss.
CacheView(k) == IF CacheHit(k) THEN heap[txCache[k].obj] ELSE NoDoc

Returned(c) == call[c].pc = "returned"

FromCache(c) == Returned(c) /\ call[c].result.cached = "true"

FromProvider(c) == Returned(c) /\ call[c].result.cached # "true"

\* ---------------------------------------------------------------- C1
\* C1: a fetch that hits the response cache sends no request to any
\* provider, and the payload it returns is identical to the payload that
\* was stored under that fingerprint by the earlier successful fetch.
C1_CacheHitReturnsStored ==
    \A c \in Calls :
        FromCache(c) =>
            /\ \A p \in ProviderIds : call[c].attempts[p] = 0
            /\ call[c].result.data = call[c].result.storedAs

\* ---------------------------------------------------------------- C2
\* The walk of one call so far: every provider in front of the current
\* position was either skipped, or attempted once with one failure recorded;
\* the provider at the position is attempted once with no failure; the
\* providers behind it are untouched.
C2_Walk ==
    \A c \in Calls :
        LET r == call[c] IN
        (r.pc \in {"attempt", "threw"} \/ FromProvider(c)) =>
            /\ \A i \in 1 .. Len(r.order) :
                 LET q == r.order[i] IN
                 IF i < r.idx
                 THEN \/ q \in r.skipped /\ r.attempts[q] = 0 /\ r.failures[q] = 0
                      \/ q \notin r.skipped /\ r.attempts[q] = 1 /\ r.failures[q] = 1
                 ELSE IF i = r.idx
                 THEN q \notin r.skipped /\ r.attempts[q] = 1 /\ r.failures[q] = 0
                 ELSE q \notin r.skipped /\ r.attempts[q] = 0 /\ r.failures[q] = 0
            /\ r.pc = "threw" => r.idx = Len(r.order) + 1
            /\ r.pc # "threw" => r.idx \in 1 .. Len(r.order)
            /\ FromProvider(c) => r.result.provider = r.order[r.idx]

\* One step of a call: a provider is skipped only with its circuit open at
\* that moment, is sent a request only with its circuit closed, and each
\* failure of the call is one more failure in the tracker.
C2_Turn ==
    \A c \in Calls : \A q \in ProviderIds :
        /\ (q \in call'[c].skipped /\ q \notin call[c].skipped)
              => isCircuitOpen(Tracker'[q], now')
        /\ call'[c].attempts[q] > call[c].attempts[q]
              => ~isCircuitOpen(Tracker'[q], now')
        /\ call'[c].failures[q] > call[c].failures[q]
              => /\ call'[c].failures[q] = call[c].failures[q] + 1
                 /\ Tracker'[q].consecutiveFailures
                       = Tracker[q].consecutiveFailures + 1

AllCircuitsOpen == \A p \in ProviderIds : isCircuitOpen(Tracker[p], now)

\* C4: when every configured provider's circuit is open at the time of the
\* call and the fingerprint is not cached, fetch fails at once with the
\* all-providers error, sends no request, and leaves every health record
\* and the cache as they were.
C4_AllOpenFailsFast ==
    [][\A c \in Calls :
          ( /\ call[c].pc = "idle"
            /\ call'[c].pc # "idle"
            /\ AllCircuitsOpen
            /\ ~FromCache(c)' )
          => /\ call'[c].pc = "threw"
             /\ call'[c].lastError = [kind |-> "allFailed", provider |-> 0]
             /\ \A p \in ProviderIds : call'[c].attempts[p] = 0
             /\ rpcState' = rpcState
             /\ grpcState' = grpcState
             /\ \A k \in Keys : CacheView(k)' = CacheView(k)
      ]_vars

C4_Witness ==
    \E c \in Calls :
        /\ call[c].pc = "threw"
        /\ call[c].lastError.kind = "allFailed"
        /\ call[c].skipped = ProviderIds
        /\ \A p \in ProviderIds : call[c].attempts[p] = 0
        /\ AllCircuitsOpen

\* ---------------------------------------------------------------- C9
\* C9: every successful provider attempt populates the response cache
\* before fetch returns, so that a fetch of the same digest and options that
\* follows at once is a cache hit.
C9_SuccessIsCached ==
    \A c \in Calls :
        FromProvider(c) =>
            \E k \in Keys :
                /\ \E o \in AllOptionSets : k = Fingerprint(call[c].digest, o)
                /\ CacheHit(k)
                /\ txCache[k].obj = call[c].result.obj

\* --------------------------------------------------------------- C10
\* The providers of a call whose request was sent and whose failure is not
\* recorded.
Outstanding(c) ==
    {p \in ProviderIds : call[c].attempts[p] > call[c].failures[p]}

\* C10: within one fetch call each provider is the target of at most one
\* lookup attempt, and attempts are strictly sequential: at most one is
\* outstanding, and when the next one starts every earlier one has ended
\* in a recorded failure.
C10_SequentialAttempts ==
    \A c \in Calls :
        /\ \A p \in ProviderIds : call[c].attempts[p] <= 1
        /\ Cardinality(Outstanding(c)) <= 1
        /\ call[c].pc = "attempt" => Outstanding(c) = {call[c].order[call[c].idx]}
        /\ call[c].pc = "threw" => Outstanding(c) = {}

C10_Witness ==
    \E c \in Calls :
        /\ call[c].pc = "attempt"
        /\ call[c].idx = 2
        /\ call[c].failures[call[c].order[1]] = 1
        /\ Outstanding(c) = {call[c].order[2]}

\* ---------------------------------------------------------------- C3
\* What one recorded failure does to provider p's record.
C3_FailureStep ==
    \A p \in ProviderIds :
        (lastOp'.op = "failure" /\ lastOp'.provider = p) =>
            LET n == Tracker[p].consecutiveFailures + 1 IN
            /\ Tracker'[p].consecutiveFailures = n
            /\ n >= FAILURE_THRESHOLD =>
                  /\ Tracker'[p].openUntil = now + OPEN_COOLDOWN_MS
                  /\ isCircuitOpen(Tracker'[p], now')
            /\ n < FAILURE_THRESHOLD =>
                  /\ Tracker'[p].openUntil = Undefined
                  /\ ~isCircuitOpen(Tracker'[p], now')

\* A record with fewer than three consecutive failures has no open circuit.
C3_ClosedBelowThreshold ==
    \A p \in ProviderIds :
        Tracker[p].consecutiveFailures < FAILURE_THRESHOLD =>
            /\ Tracker[p].openUntil = Undefined
            /\ ~isCircuitOpen(Tracker[p], now)

\* C3: after any sequence of record_success / record_failure calls the
\* circuit of a provider is opened exactly when its consecutive-failure
\* counter reaches 3: the failure that brings the counter to 3 sets
\* circuit_open_until to that moment plus the 30 second cooldown, and with
\* fewer than 3 consecutive failures the circuit is never open.
C3_OpensAtThreshold == [][C3_FailureStep /\ C3_ClosedBelowThreshold']_vars

C3_Witness ==
    \E p \in ProviderIds :
        /\ lastOp.op = "failure"
        /\ lastOp.provider = p
        /\ ~lastOp.wasOpen
        /\ now > 0
        /\ Tracker[p].consecutiveFailures = FAILURE_THRESHOLD
        /\ Tracker[p].openUntil = now + OPEN_COOLDOWN_MS

\* ---------------------------------------------------------------- C5
RECURSIVE LexLeq(_, _)
\* Lexicographic order on tuples of numbers of one length.
LexLeq(a, b) ==
    IF a = <<>> THEN TRUE
    ELSE IF Head(a) # Head(b) THEN Head(a) < Head(b)
    ELSE LexLeq(Tail(a), Tail(b))

OpenBit(p) == IF isCircuitOpen(Tracker[p], now) THEN 1 ELSE 0

\* The sort key the health tracker is described with.
C5_Key(p) ==
    <<OpenBit(p), Tracker[p].consecutiveFailures, LatencyOrZero(Tracker[p])>>

\* The sort key of the tracker in use: the streaming tracker ranks a
\* provider's count of slow answers between its failures and its latency.
C5_KeyInUse(p) ==
    IF transport = "json"
    THEN C5_Key(p)
    ELSE <<OpenBit(p), Tracker[p].consecutiveFailures, Tracker[p].slowCount,
           LatencyOrZero(Tracker[p])>>

C5_IsPermutation ==
    /\ Len(picked) = Len(loadProviders)
    /\ \A p \in ProviderIds :
          Cardinality({i \in 1 .. Len(picked) : picked[i] = p})
             = Cardinality({i \in 1 .. Len(loadProviders) : loadProviders[i] = p})

C5_ClosedBeforeOpen ==
    \A i, j \in 1 .. Len(picked) :
        (OpenBit(picked[i]) = 0 /\ OpenBit(picked[j]) = 1) => i < j

\* C5 as stated: order(providers) is a permutation of its input sorted
\* ascending by (circuit open?, consecutive failures, last latency with
\* unknown counted as zero); closed circuits precede open ones whatever the
\* latency or failure count.
C5_SortedByStatedKey ==
    picked # <<>> =>
        /\ C5_IsPermutation
        /\ C5_ClosedBeforeOpen
        /\ \A i, j \in 1 .. Len(picked) :
              i < j => LexLeq(C5_Key(picked[i]), C5_Key(picked[j]))

\* C5 amended: as stated for the request/response tracker; the streaming
\* tracker sorts by (circuit open?, consecutive failures, slow-answer count,
\* last latency with unknown counted as zero).
C5_SortedByKeyInUse ==
    picked # <<>> =>
        /\ C5_IsPermutation
        /\ C5_ClosedBeforeOpen
        /\ \A i, j \in 1 .. Len(picked) :
              i < j => LexLeq(C5_KeyInUse(picked[i]), C5_KeyInUse(picked[j]))

\* The streaming tracker has put a provider with fewer slow answers in
\* front of one with the same circuit state and failures and a lower latency.
C5_Witness ==
    /\ transport = "grpc"
    /\ picked # <<>>
    /\ picked # loadProviders
    /\ \E i, j \in 1 .. Len(picked) :
          /\ i < j
          /\ OpenBit(picked[i]) = OpenBit(picked[j])
          /\ Tracker[picked[i]].consecutiveFailures
                = Tracker[picked[j]].consecutiveFailures
          /\ Tracker[picked[i]].slowCount < Tracker[picked[j]].slowCount
          /\ LatencyOrZero(Tracker[picked[i]]) > LatencyOrZero(Tracker[picked[j]])

\* ---------------------------------------------------------------- C6
\* C6: record_success(provider, latency) resets that provider's
\* consecutive-failure counter to 0, clears any open circuit even before
\* the cooldown has elapsed, stores the latency, and changes no other
\* provider's health record.
C6_SuccessResets ==
    [][\A p \in ProviderIds :
          (lastOp'.op = "success" /\ lastOp'.provider = p) =>
             /\ Tracker'[p].consecutiveFailures = 0
             /\ Tracker'[p].openUntil = Undefined
             /\ ~isCircuitOpen(Tracker'[p], now')
             /\ Tracker'[p].lastLatencyMs = lastOp'.latency
             /\ \A q \in ProviderIds \ {p} : Tracker'[q] = Tracker[q]
      ]_vars

C6_Witness ==
    \E p \in ProviderIds :
        /\ lastOp.op = "success"
        /\ lastOp.provider = p
        /\ lastOp.wasOpen
        /\ Tracker[p].openUntil = Undefined
        /\ Tracker[p].consecutiveFailures = 0

\* ---------------------------------------------------------------- C7
\* C7: whatever the interleaving of checks from any number of clients, no
\* client is allowed more than max requests inside one throttle window.
C7_AtMostMaxPerWindow ==
    \A ip \in Clients : granted[ip].count <= RateLimitMax

\* ---------------------------------------------------------------- C8
\* C8: a window is created on a client's first check and is reset when
\* now >= reset_at: a check at or after the stored reset_at starts a new
\* window and is allowed, a check strictly before it starts none.
C8_ResetAtOrAfter ==
    lastCheck # NoCheck =>
        /\ ~lastCheck.hadRecord => (lastCheck.startedNew /\ lastCheck.allowed)
        /\ (lastCheck.hadRecord /\ lastCheck.at >= lastCheck.prevResetAt)
              => (lastCheck.startedNew /\ lastCheck.allowed)
        /\ (lastCheck.hadRecord /\ lastCheck.at < lastCheck.prevResetAt)
              => ~lastCheck.startedNew

\* --------------------------------------------------------------- C11
\* The providers of a call that were sent a request.
Attempted(c) == {p \in ProviderIds : call[c].attempts[p] > 0}

\* The position of the last provider of the call that was sent a request.
LastAttemptAt(c) ==
    CHOOSE i \in 1 .. Len(call[c].order) :
        /\ call[c].order[i] \in Attempted(c)
        /\ \A j \in 1 .. Len(call[c].order) :
              call[c].order[j] \in Attempted(c) => j <= i

\* What a call that ended in the exhaustion failure carries.
C11_Carries ==
    \A c \in Calls :
        call[c].pc = "threw" =>
            /\ call[c].result = NoResult
            /\ \A p \in ProviderIds :
                  /\ call[c].failures[p] = call[c].attempts[p]
                  /\ p \in Attempted(c) \/ p \in call[c].skipped
            /\ IF Attempted(c) = {}
               THEN call[c].lastError = [kind |-> "allFailed", provider |-> 0]
               ELSE /\ call[c].lastError.provider = call[c].order[LastAttemptAt(c)]
                    /\ call[c].lastError.kind \in JsonErrors \cup GrpcErrors

\* A step that leaves a call on its way to failure writes nothing to the
\* cache.
C11_NoWrite ==
    \A c \in Calls :
        (call[c].pc \in {"idle", "attempt"} /\ call'[c].pc \in {"attempt", "threw"})
            => \A k \in Keys : CacheView(k)' = CacheView(k)

C12_AttemptBounded ==
    \A c \in Calls : InFlight(c) => Elapsed(c) <= TimeoutMs

\* --------------------------------------------------------------- C14
\* C14: cache entries are immutable once written: the payload a live entry
\* holds is the payload as it was when stored, whatever request handling
\* did after the store.
C14_EntriesImmutable ==
    \A k \in Keys :
        CacheHit(k) => heap[txCache[k].obj] = txCache[k].storedAs

\* --------------------------------------------------------------- C13
\* The fingerprint a call asks for.
KeyOf(c) == Fingerprint(call[c].digest, call[c].options)

\* The entries of the store that hold a value for fingerprint k.
StoredFor(k) == {e \in {txCache[k]} : e.present}

\* C13: under any interleaving of concurrent fetch calls the cache holds at
\* most one value per fingerprint, and a call that completes from a provider
\* leaves its own document as that value: of two concurrent misses for one
\* fingerprint, each of which fetched upstream, the later write is the one
\* the cache holds.
C13_LaterWriteWins ==
    [][\A c \in Calls :
          (call[c].pc = "attempt" /\ call'[c].pc = "returned") =>
             /\ txCache'[KeyOf(c)'].present
             /\ txCache'[KeyOf(c)'].obj = call'[c].result.obj
             /\ heap'[txCache'[KeyOf(c)'].obj] = call'[c].result.data
             /\ Cardinality({i \in 1 .. Len(txOrder') : txOrder'[i] = KeyOf(c)'}) = 1
             /\ \A k \in Keys \ {KeyOf(c)'} : txCache'[k] = txCache[k]
      ]_vars

\* Both calls missed, both fetched upstream from different providers, and
\* the cache holds one of the two documents.
C13_Witness ==
    /\ \A c \in Calls : FromProvider(c) /\ call[c].digest = "d1"
    /\ call["c1"].result.obj # call["c2"].result.obj
    /\ call["c1"].result.data # call["c2"].result.data
    /\ txCache[KeyOf("c1")].obj = call["c2"].result.obj
    /\ heap[call["c1"].result.obj] = call["c1"].result.data

\* --------------------------------------------------------------- C15
Age(k) == now - txCache[k].start

\* The fingerprints the store holds an entry for.
Stored == {k \in Keys : txCache[k].present}

\* The lookup of a fetch: an entry older than the time-to-live is never
\* returned, its lookup is a miss that goes to the providers.
C15_FreshOnly ==
    \A c \in Calls :
        (call[c].pc = "idle" /\ call'[c].pc # "idle" /\ call'[c].lookup # "none") =>
            LET k == KeyOf(c)' IN
            /\ FromCache(c)' =>
                  /\ txCache[k].present
                  /\ Age(k) <= TX_CACHE_TTL_MS
                  /\ call'[c].result.obj = txCache[k].obj
            /\ (txCache[k].present /\ Age(k) > TX_CACHE_TTL_MS) =>
                  /\ call'[c].pc = "attempt"
                  /\ ~txCache'[k].present

\* The store never holds more entries than its capacity, and its recency
\* list names each stored fingerprint once.
C15_WithinCapacity ==
    /\ Cardinality(Stored) <= TxCacheCapacity
    /\ Len(txOrder) = Cardinality(Stored)
    /\ \A k \in Stored : \E i \in 1 .. Len(txOrder) : txOrder[i] = k

\* An entry leaves the store only when its own stale lookup drops it, or
\* when a put of a new fingerprint into the full store evicts it, and then
\* it is the least recently used one.
C15_EvictsLeastRecent ==
    \A k \in Keys :
        (txCache[k].present /\ ~txCache'[k].present) =>
            \/ /\ Age(k) > TX_CACHE_TTL_MS
               /\ \E c \in Calls : call[c].pc = "idle" /\ call'[c].pc # "idle"
                                     /\ KeyOf(c)' = k
            \/ /\ k = Head(txOrder)
               /\ Len(txOrder) = TxCacheCapacity
               /\ \E k2 \in Keys \ {k} : ~txCache[k2].present /\ txCache'[k2].present

\* C15: the response cache is time-bounded and capacity-bounded: get never
\* returns an entry older than the time-to-live (the lookup is a miss and
\* the fetch goes to the providers), the number of stored entries never
\* exceeds the capacity, and the entry evicted is the least recently used.
C15_BoundedCache ==
    [][C15_FreshOnly /\ C15_EvictsLeastRecent /\ C15_WithinCapacity']_vars

\* Storing a fetched document into the full store has evicted another
\* fingerprint, and the store holds a document that was fetched again after
\* the lookup had found its entry stale.
C15_Witness ==
    \E c \in Calls :
        /\ FromProvider(c)
        /\ call[c].result.evicted # NoKey
        /\ call[c].result.evicted \notin Stored
        /\ Cardinality(Stored) = TxCacheCapacity
        /\ \E k \in Stored : txCache[k].afterStale


\* The decoder returned a list (it did not throw).
DecoderReturned == abi.pc = "done" /\ abi.error = ""

\* Whether the returned list has an entry for the argument at position i
\* (0-based).
HasEntry(i) == \E e \in DOMAIN abi.decoded : abi.decoded[e].index = i

ArgPositions == 0 .. (Len(abi.move.arguments) - 1)

\* --------------------------------------------------------------- C16
\* C16: the list the decoder returns has exactly one entry per argument of
\* the command, in argument order, whatever the kind of each argument and
\* whether or not its metadata or layout could be resolved.
C16_OneEntryPerArgument ==
    DecoderReturned =>
        /\ Len(abi.decoded) = Len(abi.move.arguments)
        /\ \A e \in DOMAIN abi.decoded : abi.decoded[e].index = e - 1

\* --------------------------------------------------------------- C17
\* C17: decoding never throws past the decoder: a failed metadata request,
\* bytes that do not parse under the layout, or a missing definition ends
\* in a returned list, and the explain request is answered with a result
\* (status 200), not an error response.
C17_DecodingNeverThrows ==
    /\ abi.pc = "done" => abi.error = ""
    /\ abi.pc = "responded" => abi.status = 200

\* --------------------------------------------------------------- C18
\* Whether a parameter type references a datatype that is not a plain
\* struct, directly, as the element of a vector or in a struct field.
RECURSIVE ReferencesEnum(_)
ReferencesEnum(body) ==
    IF body.type = "VECTOR"
    THEN body.typeParameterInstantiation # <<>>
         /\ ReferencesEnum(body.typeParameterInstantiation[1])
    ELSE IF body.type = "DATATYPE"
    THEN LET datatype == Datatype(body.typeName) IN
         /\ datatype.found
         /\ \/ datatype.kind # 1
            \/ \E f \in DOMAIN datatype.fields :
                  ReferencesEnum(datatype.fields[f].type)
    ELSE FALSE

\* The argument at position i passes literal bytes to a parameter whose
\* type references an enum.
EnumArgument(i) ==
    LET arg == abi.move.arguments[i + 1]
        parameters == Parameters(abi.move.key)
    IN
    /\ arg.kind = "Input"
    /\ InputAt(abi.inputs, arg.n).kind = "Pure"
    /\ InputAt(abi.inputs, arg.n).bytes # <<>>
    /\ i + 1 \in DOMAIN parameters
    /\ ReferencesEnum(parameters[i + 1])

\* C18: an argument whose parameter type references an enum, directly or
\* inside a vector or a struct field, has an entry (marked schema
\* unavailable) in the list the decoder returns: it is never left out.
C18_EnumFallsBack ==
    (DecoderReturned /\ Published(abi.move.key)) =>
        \A i \in ArgPositions : EnumArgument(i) => HasEntry(i)

\* --------------------------------------------------------------- C19
\* C19: an argument that is the result of a prior command, Result(i) or
\* NestedResult(i, j), has an entry in the returned list (rendered by
\* reference).
C19_ResultRenderedByReference ==
    (DecoderReturned /\ Published(abi.move.key)) =>
        \A i \in ArgPositions :
            abi.move.arguments[i + 1].kind \in {"Result", "NestedResult"}
                => HasEntry(i)

\* --------------------------------------------------------------- C20
\* A command whose argument refers to the result of itself or of a later
\* command, or to an input outside the block's input list.
MalformedCommand ==
    \E i \in ArgPositions :
        LET arg == abi.move.arguments[i + 1] IN
        \/ arg.kind \in {"Result", "NestedResult"} /\ ~(arg.n < abi.move.at)
        \/ arg.kind = "Input" /\ ~(arg.n < Len(abi.inputs))

\* C20: a command with a forward or self reference or an out-of-range
\* input index is rejected as malformed input before any metadata request
\* is sent: the response is an error naming the malformed input.
C20_MalformedRejected ==
    (abi.pc = "responded" /\ MalformedCommand) =>
        /\ abi.status = 400
        /\ abi.error = "malformed"
        /\ abi.fetches = 0

\* --------------------------------------------------------------- C21
\* The type parameters that occur in a type.
RECURSIVE ParametersIn(_)
ParametersIn(body) ==
    IF body.type = "TYPE_PARAMETER" THEN {body.typeParameter}
    ELSE UNION {ParametersIn(body.typeParameterInstantiation[i]) :
                   i \in DOMAIN body.typeParameterInstantiation}

\* out is body with every type parameter inside the list replaced by its
\* type argument and everything else as it was.
RECURSIVE Substituted(_, _, _)
Substituted(body, typeArgs, out) ==
    IF body.type = "TYPE_PARAMETER"
    THEN out = IF body.typeParameter < Len(typeArgs)
               THEN typeArgs[body.typeParameter + 1]
               ELSE body
    ELSE IF body.type \in {"VECTOR", "DATATYPE"}
    THEN /\ out.type = body.type
         /\ out.typeName = body.typeName
         /\ DOMAIN out.typeParameterInstantiation =
               DOMAIN body.typeParameterInstantiation
         /\ \A i \in DOMAIN body.typeParameterInstantiation :
               Substituted(body.typeParameterInstantiation[i], typeArgs,
                           out.typeParameterInstantiation[i])
    ELSE out = body

ClosedArguments(typeArgs) ==
    \A i \in DOMAIN typeArgs : ParametersIn(typeArgs[i]) = {}

\* C21: resolveTypeParameters replaces every type parameter whose index is
\* inside the type-argument list by that type argument, leaves a parameter
\* with an index outside the list in place, looks into the element type of
\* a vector and into every type argument of a datatype, and leaves
\* primitives as they are; with type arguments that contain no type
\* parameter, resolving the result again changes nothing.
C21_ResolveSubstitutes ==
    lab.op = "resolve" =>
        /\ Substituted(lab.body, lab.typeArgs, lab.resolved)
        /\ ClosedArguments(lab.typeArgs) => lab.again = lab.resolved

\* A datatype with one parameter inside and one outside the list.
C21_Witness ==
    /\ lab.op = "resolve"
    /\ lab.body = DatatypeWith("0x2::m::Two", <<TypeParameter(0), Unbound>>)
    /\ lab.typeArgs = <<VectorOf(U64)>>
    /\ lab.resolved = DatatypeWith("0x2::m::Two", <<VectorOf(U64), Unbound>>)

\* --------------------------------------------------------------- C22
\* The layout of a closed type when every datatype's fields are read with
\* the type arguments the datatype is instantiated with.
RECURSIVE InstantiatedLayout(_)
InstantiatedLayout(body) ==
    LET inst == body.typeParameterInstantiation
        datatype == Datatype(body.typeName)
    IN
    IF getPrimitiveBcsType(body)
    THEN LayoutOf("prim", PrimitiveWidth(body), <<>>, <<>>)
    ELSE IF body.type = "VECTOR"
    THEN LayoutOf("vector", 0, <<InstantiatedLayout(inst[1])>>, <<>>)
    ELSE LayoutOf("struct", 0,
                  [f \in DOMAIN datatype.fields |->
                     InstantiatedLayout(
                        resolveTypeParameters(datatype.fields[f].type, inst))],
                  [f \in DOMAIN datatype.fields |-> datatype.fields[f].name])

\* A generic struct instantiated with closed type arguments.
InstantiatedStructs ==
    {DatatypeWith("0x2::m::Two", <<U8, VectorOf(U64)>>),
     DatatypeWith("0x2::m::Box", <<U8>>),
     DatatypeWith("0x2::m::Box", <<U64>>)}

\* C22: the layout built for a parameterized datatype has, for each field
\* in declaration order, the layout of the field's type with the type
\* arguments the datatype is instantiated with put in: Two<u8, vector<u64>>
\* with fields { a: T0, b: vector<T1> } gives { a: u8, b:
\* vector<vector<u64>> }.
C22_FieldsUseInstantiation ==
    (lab.op = "build" /\ lab.down = {} /\ lab.resolved \in InstantiatedStructs) =>
        lab.layout = InstantiatedLayout(lab.resolved)

\* --------------------------------------------------------------- C23
\* The bytes of the u64 261.
U64Bytes == <<5, 1, 0, 0, 0, 0, 0, 0>>

\* C23: decoding bytes as Box<u64>, a generic struct whose single field has
\* the type of its parameter, gives the field the number that decoding the
\* same bytes as a plain u64 gives.
C23_GenericStructDecodesAsU64 ==
    (/\ lab.op = "decode"
     /\ lab.down = {}
     /\ lab.resolved = DatatypeWith("0x2::m::Box", <<U64>>)
     /\ lab.bytes = U64Bytes) =>
        /\ lab.value.status = "ok"
        /\ lab.value.value =
              "{ value: " \o decodeArgValue(U64, lab.bytes, <<>>, {}).value \o " }"

\* --------------------------------------------------------------- C24
\* Whether every part of a type can be laid out: no type parameter is left
\* in it, and every datatype in it is a published struct whose fields, read
\* with the datatype's type arguments, can be laid out.
RECURSIVE Buildable(_)
Buildable(body) ==
    LET inst == body.typeParameterInstantiation
        datatype == Datatype(body.typeName)
    IN
    IF getPrimitiveBcsType(body) THEN TRUE
    ELSE IF body.type = "VECTOR" THEN inst # <<>> /\ Buildable(inst[1])
    ELSE IF body.type = "DATATYPE"
    THEN /\ datatype.found
         /\ datatype.kind = 1
         /\ \A i \in DOMAIN inst : Buildable(inst[i])
         /\ \A f \in DOMAIN datatype.fields :
               Buildable(resolveTypeParameters(datatype.fields[f].type, inst))
    ELSE FALSE

\* C24: the builder returns a layout only when every part of the resolved
\* type was built: a type that still contains an unresolved type parameter,
\* or refers to a datatype that is unavailable or not a struct, has no
\* layout.
C24_AllOrNothing ==
    (lab.op = "build" /\ lab.layout.status = "ok") => Buildable(lab.resolved)

\* The handler read a body in this step.
Receives == request'.served = request.served + 1

\* What a fetch, a metadata lookup or a health update would change.
backendVars ==
    <<txCache, txOrder, heap, call, rpcState, grpcState,
      functionCache, datatypeCache, structSchemaCache, abi>>

\* --------------------------------------------------------------- C25
\* C25: when the throttle denies a request, the handler answers with the
\* rate-limited failure in that same step, without a cache lookup, a
\* transport call, a metadata call or a change of a provider's health
\* record, and the answered request checks the throttle no second time.
C25_DenialSurfacedImmediately ==
    [][/\ (Receives /\ requestSchema(request'.body) /\ ~lastCheck'.allowed)
            => /\ request'.pc = "responded"
               /\ request'.status = 429
               /\ request'.cause = "rateLimited"
               /\ UNCHANGED backendVars
       /\ (request.pc = "responded" /\ request.status = 429)
            => /\ request'.pc = "idle"
               /\ UNCHANGED backendVars
               /\ UNCHANGED rateVars]_vars

\* A denied request is answered while the cache holds a document and a
\* provider has a failure on record.
C25_Witness ==
    /\ request.pc = "responded"
    /\ request.status = 429
    /\ ~lastCheck.allowed
    /\ \E k \in Keys : txCache[k].present
    /\ \E p \in ProviderIds : rpcState[p].consecutiveFailures > 0

\* The accepted shapes of a digest: 20 to 80 base58 characters, or "0x"
\* followed by 40 to 128 hex digits.
AcceptedShape(value) ==
    \/ value.alphabet = "base58" /\ value.length \in 20 .. 80
    \/ value.alphabet = "hex" /\ (value.length - 2) \in 40 .. 128

\* --------------------------------------------------------------- C26
\* C26: a request whose digest does not have an accepted shape is answered
\* with the malformed-input failure in the step that reads it, with no
\* transport call, no read or write of the transaction cache and no change
\* of a provider's health record, and nothing follows the answer.
C26_MalformedRejectedBeforeNetwork ==
    [][/\ (Receives /\ ~AcceptedShape(request'.body.digest))
            => /\ request'.pc = "responded"
               /\ request'.status = 400
               /\ request'.cause = "malformed"
               /\ UNCHANGED backendVars
       /\ (request.pc = "responded" /\ request.cause = "malformed")
            => /\ request'.pc = "idle"
               /\ UNCHANGED backendVars]_vars

\* A string outside both alphabets is rejected while the cache holds a
\* document.
C26_Witness ==
    /\ request.pc = "responded"
    /\ request.cause = "malformed"
    /\ request.body.digest.alphabet = "other"
    /\ \E k \in Keys : txCache[k].present

\* The three failure categories of the boundary.
FailureCategories == {"exhausted", "rateLimited", "malformed"}

\* What the caller has to tell the categories apart: the status of the
\* response (its body is { ok: false, error: <message> } for each of them).
SameOutcome(a, b) == a.status = b.status

\* --------------------------------------------------------------- C27
\* C27: an answered request carries either a complete result, the document
\* with one decoded entry per argument of its MoveCall, or a failure of one
\* of the three categories; two failures of different categories are never
\* reported under the same outcome.
C27_OneCategorizedOutcome ==
    request.pc = "responded" =>
        /\ request.cause \in FailureCategories \cup {"none"}
        /\ request.cause = "none" =>
              /\ request.status = 200
              /\ Len(request.decodedArgs) = Len(abi.move.arguments)
        /\ request.cause \in FailureCategories => request.status # 200
        /\ (/\ request.cause \in FailureCategories
            /\ request.previous.cause \in FailureCategories
            /\ SameOutcome(request, request.previous))
              => request.cause = request.previous.cause

\* The positions of the object changes of type 'transferred', in document
\* order.
TransferredAt(tx) ==
    {i \in DOMAIN tx.objectChanges : tx.objectChanges[i].type = "transferred"}

\* The headline the priority rule gives for n transfers, m Move calls and
\* k object changes.
HeadlineFor(status, n, m, k) ==
    CASE status = "failure" -> "Transaction failed to execute"
      [] status # "failure" /\ n = 1 -> "Executed 1 transfer"
      [] status # "failure" /\ n > 1 -> "Executed " \o ToString(n) \o " transfers"
      [] status # "failure" /\ n = 0 /\ m = 1 -> "Executed 1 Move call"
      [] status # "failure" /\ n = 0 /\ m > 1 ->
            "Executed " \o ToString(m) \o " Move calls"
      [] status # "failure" /\ n = 0 /\ m = 0 /\ k = 1 ->
            "Processed 1 object change"
      [] status # "failure" /\ n = 0 /\ m = 0 /\ k > 1 ->
            "Processed " \o ToString(k) \o " object changes"
      [] OTHER -> "Transaction processed"

\* --------------------------------------------------------------- C28
\* C28: explainTransaction gives one transfer entry per object change of
\* type 'transferred', in document order, and the headline follows the
\* priority failure, transfers, Move calls, object changes, none.
C28_TransfersAndHeadline ==
    lab.op = "explain" =>
        LET tx == lab.tx
            out == lab.response
            at == TransferredAt(tx)
            moves == {i \in DOMAIN tx.transactions : tx.transactions[i] = "MoveCall"}
        IN  /\ Len(out.transfers) = Cardinality(at)
            /\ \A j \in DOMAIN out.transfers :
                  \E i \in at :
                     /\ Cardinality({x \in at : x < i}) = j - 1
                     /\ out.transfers[j].id =
                           ToString(j - 1) \o "-" \o tx.objectChanges[i].objectId
            /\ out.summary.headline =
                  HeadlineFor(tx.status, Cardinality(at), Cardinality(moves),
                              Len(tx.objectChanges))

\* A successful document with a transfer after another change and a Move
\* call: the transfers decide the headline.
C28_Witness ==
    /\ lab.op = "explain"
    /\ lab.tx.status = "success"
    /\ Len(lab.tx.objectChanges) = 2
    /\ lab.tx.objectChanges[1].type = "created"
    /\ lab.tx.objectChanges[2].type = "transferred"
    /\ "MoveCall" \in {lab.tx.transactions[i] : i \in DOMAIN lab.tx.transactions}
    /\ lab.response.summary.headline = "Executed 1 transfer"

\* The layout entries that were alive when the last build started.
LiveBefore ==
    {e \in lab.before : ~(lab.at - e.start > STRUCT_SCHEMA_TTL_MS)}

\* --------------------------------------------------------------- C29
\* C29: a memoized layout is handed only to a use of the instantiation it
\* was built for, so uses of one generic struct with different type
\* arguments never share an entry, and a use of an instantiation that has a
\* live entry reuses it without a metadata request.
C29_MemoPerInstantiation ==
    lab.op = "buildCached" =>
        /\ \A h \in lab.hits : h.use = h.builtFor
        /\ (/\ lab.resolved.type = "DATATYPE"
            /\ \E e \in LiveBefore : e.builtFor = lab.resolved)
              => /\ lab.hits # {}
                 /\ lab.sent = {}

\* --------------------------------------------------------------- C30
\* C30: once a lookup of a function or of a datatype has stored its
\* descriptor, no later lookup of that key sends a request to the provider,
\* however much later it is made and whatever was looked up in between.
C30_FetchedOnce ==
    /\ (lab.op \in {"getFunction", "getDatatype"} /\ lab.known) => ~lab.sent
    /\ lab.op = "buildCached" => lab.sent \cap lab.known = {}

\* A lookup of caller c has returned.
LookupDone(c) == lab.op = "lookups" /\ lab.calls[c].pc = "done"

\* --------------------------------------------------------------- C31
\* C31: concurrent misses of one key may each send the request; once a
\* definition is stored, a later lookup of the key returns it without a
\* request; an answer without a definition is returned as not found, not
\* thrown, and is not stored.
C31_LookupsConverge ==
    /\ \A c \in Calls :
          (LookupDone(c) /\ lab.calls[c].known)
              => (~lab.calls[c].sent /\ lab.calls[c].answer = "found")
    /\ \A k \in LookupKeys :
          ~Defined(k.kind, k.key) => ~MetaCache(k.kind)[k.key].present

\* The health records of both trackers, by transport.
TrackerOf(kind) == IF kind = "json" THEN rpcState ELSE grpcState

\* A provider's record is within the tracker's invariant.
HealthOk(state, t) ==
    /\ state.consecutiveFailures >= 0
    /\ state.openUntil # Undefined
          => state.consecutiveFailures >= FAILURE_THRESHOLD
    /\ isCircuitOpen(state, t)
          => state.consecutiveFailures >= FAILURE_THRESHOLD

\* A step sets or moves openUntil only by recording a failure, and to the
\* time of that failure plus the cooldown; a failure that leaves the
\* counter at the threshold or above always does.
DeadlineFollowsFailure(before, after, t) ==
    /\ (after.openUntil # Undefined /\ after.openUntil # before.openUntil)
          => /\ after.consecutiveFailures = before.consecutiveFailures + 1
             /\ after.openUntil = t + OPEN_COOLDOWN_MS
    /\ (after.consecutiveFailures = before.consecutiveFailures + 1
          /\ after.consecutiveFailures >= FAILURE_THRESHOLD)
          => after.openUntil = t + OPEN_COOLDOWN_MS

\* --------------------------------------------------------------- C32
\* C32: in every state of either tracker each provider has a counter >= 0,
\* openUntil set only with three or more consecutive failures (so a provider
\* with fewer is never held open), and a set openUntil is the time of the
\* most recent recorded failure plus 30 seconds.
C32_TrackerInvariant ==
    /\ [](\A k \in Transports, p \in ProviderIds : HealthOk(TrackerOf(k)[p], now))
    /\ [][\A p \in ProviderIds :
             /\ DeadlineFollowsFailure(rpcState[p], rpcState'[p], now)
             /\ DeadlineFollowsFailure(grpcState[p], grpcState'[p], now)]_vars

\* A failure recorded while the circuit was open, after the clock moved.
C32_Witness ==
    /\ now > 0
    /\ lastOp.op = "failure"
    /\ lastOp.wasOpen
    /\ Tracker[lastOp.provider].consecutiveFailures > FAILURE_THRESHOLD
    /\ Tracker[lastOp.provider].openUntil = now + OPEN_COOLDOWN_MS

\* The cooldown of a record has run out: openUntil is set and not ahead.
CooldownElapsed(state, t) ==
    state.openUntil # Undefined /\ ~isCircuitOpen(state, t)

\* One step of a provider's record, as C33 describes it.
AfterCooldown(before, after, t, t2) ==
    \* the clock alone changes nothing
    /\ t2 # t => after = before
    \* one further failure opens the circuit again, for 30 s from that failure
    /\ (before.openUntil # Undefined
          /\ after.consecutiveFailures = before.consecutiveFailures + 1)
          => /\ after.openUntil = t + OPEN_COOLDOWN_MS
             /\ isCircuitOpen(after, t)
    \* one success makes the provider fully healthy
    /\ (before.openUntil # Undefined
          /\ after.consecutiveFailures < before.consecutiveFailures)
          => /\ after.consecutiveFailures = 0
             /\ after.openUntil = Undefined

\* Among the providers whose circuit is not open, the order is by
\* consecutive failures.
ClosedByFailures(states, order, t) ==
    \A i, j \in 1..Len(order) :
        (/\ ~isCircuitOpen(states[order[i]], t)
         /\ ~isCircuitOpen(states[order[j]], t)
         /\ states[order[i]].consecutiveFailures
               < states[order[j]].consecutiveFailures) => i < j

\* --------------------------------------------------------------- C33
\* C33: when the cooldown runs out the counter stays; the provider is offered
\* again, after the closed providers with fewer consecutive failures; one
\* more failure opens its circuit for 30 s from that failure, also when the
\* circuit was still open; one success leaves counter 0 and no openUntil.
C33_CooldownExpiry ==
    /\ [](\A p \in ProviderIds :
            CooldownElapsed(Tracker[p], now)
               => /\ Tracker[p].consecutiveFailures >= FAILURE_THRESHOLD
                  /\ picked # <<>>
                        => /\ \E i \in 1..Len(picked) : picked[i] = p
                           /\ ClosedByFailures(Tracker, picked, now))
    /\ [][\A p \in ProviderIds :
            /\ AfterCooldown(rpcState[p], rpcState'[p], now, now')
            /\ AfterCooldown(grpcState[p], grpcState'[p], now, now')]_vars

\* A failure recorded after the cooldown ran out: the circuit is open again.
C33_Witness ==
    /\ now >= OPEN_COOLDOWN_MS
    /\ lastOp.op = "failure"
    /\ ~lastOp.wasOpen
    /\ Tracker[lastOp.provider].consecutiveFailures > FAILURE_THRESHOLD
    /\ isCircuitOpen(Tracker[lastOp.provider], now)

\* The calls whose attempt at provider p completes in this step, with a
\* failure and with a success.
FailedAt(p) ==
    {c \in Calls : /\ call[c].pc = "attempt"
                   /\ call[c].order[call[c].idx] = p
                   /\ call'[c].failures[p] = call[c].failures[p] + 1}

SucceededAt(p) ==
    {c \in Calls : /\ call[c].pc = "attempt"
                   /\ call[c].order[call[c].idx] = p
                   /\ call'[c].pc = "returned"}

\* Call c starts an attempt in this step.
StartsAttempt(c) ==
    /\ call'[c].pc = "attempt"
    /\ call[c].pc # "attempt" \/ call'[c].idx # call[c].idx

HealthAfterStep(kind, p) ==
    LET state == TrackerOf(kind)[p]
        ok == CHOOSE c \in SucceededAt(p) : TRUE
    IN  IF kind # transport THEN state
        ELSE IF SucceededAt(p) # {}
        THEN IF kind = "json"
             THEN recordSuccess(state, call'[ok].result.latency)
             ELSE GrpcRecordSuccess(state, call'[ok].result.latency, SLO_MS)
        ELSE IF FailedAt(p) # {}
        THEN IF kind = "json" THEN recordFailure(state, now)
             ELSE GrpcRecordFailure(state, now)
        ELSE state

FingerprintInjective ==
    \A d1, d2 \in CacheDigests, o1, o2 \in AllOptionSets :
        (Fingerprint(d1, o1) = Fingerprint(d2, o2)) => (d1 = d2 /\ o1 = o2)

\* The digest and read options of call c.
AskedBy(c) == [digest |-> call[c].digest, options |-> call[c].options]

\* --------------------------------------------------------------- C36
\* C36: fetches that differ in digest or in read options have different
\* fingerprints and never read or overwrite each other's cache entry: every
\* entry sits under the fingerprint of the digest and options it was
\* fetched for, a hit returns the entry stored for the call's own digest and
\* options, and a step changes only the entry of the acting call's own
\* fingerprint.
C36_FingerprintSeparates ==
    /\ []FingerprintInjective
    /\ [](\A k \in Keys :
            txCache[k].present
               => k = Fingerprint(txCache[k].storedFor.digest,
                                  txCache[k].storedFor.options))
    /\ [][\A c \in Calls :
            /\ (call'[c] # call[c] /\ call'[c].pc = "returned"
                  /\ call'[c].result.cached = "true")
                  => /\ txCache[KeyOf(c)'].storedFor = AskedBy(c)'
                     /\ call'[c].result.obj = txCache[KeyOf(c)'].obj
            /\ call'[c] # call[c]
                  => \A k \in Keys :
                        txCache'[k] # txCache[k]
                           => k \in {KeyOf(c), KeyOf(c)'}]_vars

\* One digest is stored under the explain route's options and under the
\* recent-transactions route's options as two entries, and a call with the
\* explain options has just been served from the cache.
C36_Witness ==
    \E d \in Digests, c \in Calls :
        /\ txCache[Fingerprint(d, "explain")].present
        /\ txCache[Fingerprint(d, "recent")].present
        /\ txCache[Fingerprint(d, "explain")].obj
              # txCache[Fingerprint(d, "recent")].obj
        /\ call[c].pc = "returned"
        /\ call[c].result.cached = "true"
        /\ AskedBy(c) = [digest |-> d, options |-> "explain"]

\* --------------------------------------------------------------- C37
\* C37: the handler validates, then checks the throttle, then fetches: the
\* step that reads a malformed request leaves the throttle's records as they
\* were; the step that reads a well-formed one either is denied, the
\* client's count staying as it is, or raises the client's count by one
\* (to one in a new window); no later step of the request, whether it is
\* served from the cache or a provider or fails, touches the throttle, and a
\* fetch starts only for a request that was admitted.
C37_ValidateThrottleFetch ==
    [][/\ (Receives /\ ~requestSchema(request'.body)) => UNCHANGED rateVars
       /\ (Receives /\ requestSchema(request'.body))
             => /\ lastCheck'.ip = request'.ip
                /\ UNCHANGED backendVars
                /\ IF request'.status = 429
                   THEN /\ ~lastCheck'.allowed
                        /\ rateLimiter'[request'.ip].count
                              = rateLimiter[request'.ip].count
                   ELSE /\ request'.pc = "admitted"
                        /\ rateLimiter'[request'.ip].present
                        /\ rateLimiter'[request'.ip].count =
                              IF lastCheck'.startedNew THEN 1
                              ELSE rateLimiter[request'.ip].count + 1
       /\ ~Receives => UNCHANGED rateVars
       /\ (call'["c1"] # call["c1"] /\ call["c1"].pc = "idle")
             => (request.pc = "fetch" /\ request.status = 0)]_vars

\* The third request of a client is malformed and is answered as such: the
\* two well-formed ones before it took one unit each, it took none.
C37_Witness ==
    /\ request.pc = "responded"
    /\ request.cause = "malformed"
    /\ request.served = RateLimitMax + 1
    /\ rateLimiter[request.ip].present
    /\ rateLimiter[request.ip].count = RateLimitMax
    /\ \E k \in Keys : txCache[k].present

\* The request asks for the JSON-RPC fetcher.
JsonMode == request.body.mode = "json"

\* The fetcher in use while a request is being served is the one its mode
\* and the fallback select, and a served document is labelled with it.
TransportFollowsMode ==
    /\ request.pc = "fetch"
          => transport = IF JsonMode \/ request.fellBack THEN "json" ELSE "grpc"
    /\ request.fellBack => ~JsonMode
    /\ (request.pc = "responded" /\ request.status = 200)
          => request.provider = IF JsonMode \/ request.fellBack
                                THEN "json" ELSE "grpc"

\* --------------------------------------------------------------- C38
\* C38: with mode 'json' only the JSON-RPC fetcher is used; otherwise the
\* streaming fetcher is used first and the JSON-RPC fetcher after it failed;
\* the provider label of a served document names the fetcher that produced
\* it; and a request that passed validation and the throttle is answered
\* with an error only when the fetchers it may use have all failed.
C38_FallbackBeforeError ==
    /\ TransportFollowsMode
    /\ (request.pc = "responded" /\ ~request.ok
           /\ request.cause \notin {"malformed", "rateLimited"})
          => /\ request.cause = "exhausted"
             /\ ~JsonMode => request.fellBack

\* The type argument a parameter index stands for: the parse of the text at
\* that position, and nothing when there is no such position or the text
\* cannot be parsed.
ArgumentAt(typeArguments, index) ==
    IF index + 1 \in DOMAIN typeArguments
    THEN parseTypeTag(typeArguments[index + 1])
    ELSE NullBody

\* --------------------------------------------------------------- C39
\* C39: a type parameter with index i is resolved to the parse of the i-th
\* type-argument text and to nothing else; when that text cannot be parsed
\* the parameter stays as it is.
C39_TypeArgumentsKeepPositions ==
    (lab.op = "tags" /\ lab.body.type = "TYPE_PARAMETER") =>
        lab.resolved =
            IF ArgumentAt(lab.typeArguments, lab.body.typeParameter) = NullBody
            THEN lab.body
            ELSE ArgumentAt(lab.typeArguments, lab.body.typeParameter)

\* The plugins of a run that match and describe without throwing.
Describing(plugins) ==
    {i \in DOMAIN plugins :
        plugins[i].match = "true" /\ plugins[i].describe # "throws"}

\* --------------------------------------------------------------- C40
\* C40: runDecoderPlugins returns the description of the plugin of highest
\* priority among those whose match succeeds and whose describe does not
\* throw, whatever the plugins of higher priority threw, and null only when
\* there is no such plugin.
C40_FirstDescribingPlugin ==
    lab.op = "plugins" =>
        IF Describing(lab.plugins) = {} THEN lab.result = "null"
        ELSE \E i \in Describing(lab.plugins) :
                /\ lab.result = lab.plugins[i].describe
                /\ \A j \in Describing(lab.plugins) :
                      lab.plugins[j].priority <= lab.plugins[i].priority

\* The plugin of highest priority threw in match, a later one in the
\* array matched and described, and its description is the result.
C40_Witness ==
    /\ lab.op = "plugins"
    /\ \E i, j \in DOMAIN lab.plugins :
          /\ lab.plugins[i].match = "throws"
          /\ lab.plugins[i].priority > lab.plugins[j].priority
          /\ j \in Describing(lab.plugins)
          /\ lab.result = lab.plugins[j].describe

====
